---- MODULE Spec2Model ----
(***************************************************************************)
(* Exchange adapter abstraction of panda-mcp: the registry                 *)
(* (ExchangeFactory), the adapter base class (BaseExchange: lazy HTTP      *)
(* client, scoped acquisition, retrying fetcher, pair cache), the three    *)
(* vendor adapters and the public tool operations of app.py that wrap      *)
(* them.                                                                   *)
(***************************************************************************)
EXTENDS Integers, Sequences, FiniteSets, TLC

(***************************************************************************)
(* Bounds of the model (not program constants).                            *)
(***************************************************************************)
MaxTime == 64
MaxRegs == 2
MaxCalls == 3
MaxFetches == 1
MaxTools == 2
MaxConns == 2
AttemptHorizon == 4
MaxMethodCalls == 2

(***************************************************************************)
(* Program constants.                                                      *)
(***************************************************************************)
DefaultCacheTtl == 60
StopAttempts == 3
WaitMultiplier == 1
WaitMin == 2
WaitMax == 10
ExpBase == 2

Max2(a, b) == IF a >= b THEN a ELSE b
Min2(a, b) == IF a <= b THEN a ELSE b

RECURSIVE Pow(_, _)
Pow(b, e) == IF e <= 0 THEN 1 ELSE b * Pow(b, e - 1)

RECURSIVE SumSeq(_)
SumSeq(s) == IF s = <<>> THEN 0 ELSE Head(s) + SumSeq(Tail(s))

(***************************************************************************)
(* Exchange names are character sequences, so that str.lower() is computed *)
(* letter by letter.                                                       *)
(***************************************************************************)
UpperChars == <<"A", "B", "C", "E", "H", "I", "K", "N", "O", "X", "Y">>
LowerChars == <<"a", "b", "c", "e", "h", "i", "k", "n", "o", "x", "y">>

LowerChar(c) ==
    IF \E i \in DOMAIN UpperChars : UpperChars[i] = c
    THEN LowerChars[CHOOSE i \in DOMAIN UpperChars : UpperChars[i] = c]
    ELSE c

Lower(s) == [i \in DOMAIN s |-> LowerChar(s[i])]

NameBinance == <<"b", "i", "n", "a", "n", "c", "e">>
NameBybit == <<"b", "y", "b", "i", "t">>
NameHyperliquid == <<"h", "y", "p", "e", "r", "l", "i", "q", "u", "i", "d">>
NameBINANCE == <<"B", "I", "N", "A", "N", "C", "E">>
NameBybitCap == <<"B", "y", "b", "i", "t">>
NameOkx == <<"o", "k", "x">>
NameOKX == <<"O", "K", "X">>

ExchangeNames ==
    {NameBinance, NameBybit, NameHyperliquid, NameBINANCE, NameBybitCap, NameOkx, NameOKX}

AdapterClasses == {"BinanceExchange", "BybitExchange", "HyperliquidExchange"}

(***************************************************************************)
(* Exceptions: the class, the message, the names a message lists, the      *)
(* attempt a transport failure belongs to and, for tenacity's RetryError,  *)
(* the class of the last attempt's exception.                              *)
(***************************************************************************)
Exc(type, text, detail, at, cause) ==
    [type |-> type, text |-> text, detail |-> detail, at |-> at, cause |-> cause]

NoExc == Exc("none", "", <<>>, 0, "")

\* Python / httpx / tenacity class hierarchy, as far as the except clauses use it.
BaseOf(type) ==
    CASE type = "JSONDecodeError" -> "ValueError"
      [] type = "ConnectError" -> "HTTPError"
      [] type = "HTTPStatusError" -> "HTTPError"
      [] type = "NotImplementedError" -> "RuntimeError"
      [] type = "Exception" -> "BaseException"
      [] OTHER -> "Exception"

RECURSIVE IsInstance(_, _)
IsInstance(type, base) ==
    IF type = base THEN TRUE
    ELSE IF type \in {"none", "BaseException"} THEN FALSE
    ELSE IsInstance(BaseOf(type), base)

(***************************************************************************)
(* Retrying fetcher.  An attempt either succeeds ("ok": 2xx and a JSON     *)
(* body), fails in transport ("transport"), returns a non-2xx status       *)
(* ("status": raise_for_status raises) or returns a 2xx with a body that   *)
(* is not JSON ("badjson": response.json() raises).                        *)
(***************************************************************************)
AttemptKinds == {"ok", "transport", "status", "badjson"}

AttemptExc(kind, n) ==
    CASE kind = "transport" -> Exc("ConnectError", "connection failed", <<>>, n, "")
      [] kind = "status" -> Exc("HTTPStatusError", "server error", <<>>, n, "")
      [] kind = "badjson" -> Exc("JSONDecodeError", "Expecting value", <<>>, n, "")
      [] OTHER -> NoExc

\* mutant: one attempt more
StopAfterAttempt_late(n) == n >= StopAttempts + 1

\* tenacity: stop_after_attempt(3)
StopAfterAttempt(n) == n >= StopAttempts

\* mutant: the exponent is the attempt number
WaitExponential_fromAttempt(n) ==
    Max2(Max2(0, WaitMin), Min2(WaitMultiplier * Pow(ExpBase, n), WaitMax))

\* tenacity: wait_exponential(multiplier=1, min=2, max=10), called with the
\* number of the attempt that has just failed.
WaitExponential(n) ==
    Max2(Max2(0, WaitMin), Min2(WaitMultiplier * Pow(ExpBase, n - 1), WaitMax))

\* tenacity: the default retry predicate, retry_if_exception_type(Exception)
RetryPredicate(e) == IsInstance(e.type, "Exception")

\* tenacity: reraise defaults to False, so exhaustion raises RetryError
RetryErrorOf(e) == Exc("RetryError", "RetryError[Future raised]", <<>>, e.at, e.type)

RECURSIVE RetryLoop(_, _, _)
RetryLoop(outs, n, waits) ==
    IF outs[n] = "ok"
    THEN [attempts |-> n, waits |-> waits, exc |-> NoExc]
    ELSE LET e == AttemptExc(outs[n], n) IN
         IF ~RetryPredicate(e)
         THEN [attempts |-> n, waits |-> waits, exc |-> e]
         ELSE IF StopAfterAttempt(n)
         THEN [attempts |-> n, waits |-> waits, exc |-> RetryErrorOf(e)]
         ELSE RetryLoop(outs, n + 1, Append(waits, WaitExponential(n)))

\* BaseExchange._fetch_with_retry / HyperliquidExchange._fetch_with_retry_post
FetchWithRetry(outs) == RetryLoop(outs, 1, <<>>)

\* the outcomes of the attempts of one fetch; attempts after the first
\* success are never made, so their outcome is fixed to "ok"
AttemptSeqs ==
    {outs \in [1..AttemptHorizon -> AttemptKinds] :
       \A n \in 1..(AttemptHorizon - 1) : outs[n] = "ok" => outs[n + 1] = "ok"}

\* k failed attempts of one kind, then success
OutSeq(k, kind) == [n \in 1..AttemptHorizon |-> IF n <= k THEN kind ELSE "ok"]

\* attempt outcomes used for adapter operations: k transport failures first
AdapterOuts == {OutSeq(k, "transport") : k \in {0, 1, StopAttempts}}

CacheOuts == {OutSeq(k, "transport") : k \in {0, StopAttempts}}

(***************************************************************************)
(* Vendor responses of the pair-listing endpoints.  An item carries the    *)
(* fields the adapters read; a Hyperliquid spot body also carries the      *)
(* token table.                                                            *)
(***************************************************************************)
It(base, quote, sym, status, ctype, delisted, toks) ==
    [base |-> base, quote |-> quote, sym |-> sym, status |-> status,
     ctype |-> ctype, delisted |-> delisted, toks |-> toks]

Tok(index, name) == [index |-> index, name |-> name]

Body(items, tokens, malformed) ==
    [items |-> items, tokens |-> tokens, malformed |-> malformed]

BinanceSpotBodies ==
    { Body(<<It("BTC", "USDT", "BTCUSDT", "TRADING", "", FALSE, <<>>),
             It("ETH", "USDT", "ETHUSDT", "TRADING", "", FALSE, <<>>),
             It("HIFI", "USDT", "HIFIUSDT", "BREAK", "", FALSE, <<>>),
             It("ETH", "BTC", "ETHBTC", "TRADING", "", FALSE, <<>>)>>, <<>>, FALSE),
      Body(<<It("BTC", "USDT", "BTCUSDT", "BREAK", "", FALSE, <<>>)>>, <<>>, FALSE),
      Body(<<It("", "USDT", "BTCUSDT", "TRADING", "", FALSE, <<>>)>>, <<>>, TRUE) }

BinanceFuturesBodies ==
    { Body(<<It("BTC", "USDT", "BTCUSDT", "TRADING", "PERPETUAL", FALSE, <<>>),
             It("LUNA", "USDT", "LUNAUSDT", "SETTLING", "PERPETUAL", FALSE, <<>>),
             It("BTC", "USDT", "BTCUSDT", "TRADING", "CURRENT_QUARTER", FALSE, <<>>)>>,
           <<>>, FALSE),
      Body(<<It("ETH", "USDT", "ETHUSDT", "TRADING", "PERPETUAL", FALSE, <<>>)>>,
           <<>>, FALSE) }

BybitSpotBodies ==
    { Body(<<It("BTC", "USDT", "BTCUSDT", "Trading", "", FALSE, <<>>),
             It("ETH", "USDC", "ETHUSDC", "Trading", "", FALSE, <<>>)>>, <<>>, FALSE),
      Body(<<It("SOL", "USDT", "SOLUSDT", "Trading", "", FALSE, <<>>),
             It("XRP", "USDT", "XRPUSDT", "Closed", "", FALSE, <<>>)>>, <<>>, FALSE) }

BybitFuturesBodies ==
    { Body(<<It("BTC", "USDT", "BTCUSDT", "Trading", "LinearPerpetual", FALSE, <<>>),
             It("BTC", "USDT", "BTCUSDT-26DEC", "Trading", "LinearFutures", FALSE, <<>>)>>,
           <<>>, FALSE),
      Body(<<It("ETH", "USDT", "ETHUSDT", "Trading", "LinearPerpetual", FALSE, <<>>)>>,
           <<>>, FALSE) }

HyperliquidSpotBodies ==
    { Body(<<It("", "", "PURR/USDC", "", "", FALSE, <<1, 0>>),
             It("", "", "@1", "", "", FALSE, <<2, 0>>),
             It("", "", "@2", "", "", FALSE, <<1>>),
             It("", "", "@3", "", "", FALSE, <<1, 9>>)>>,
           <<Tok(0, "USDC"), Tok(1, "PURR"), Tok(2, "USDT0")>>, FALSE),
      Body(<<It("", "", "@4", "", "", FALSE, <<1, 0>>)>>,
           <<Tok(0, "USDC"), Tok(1, "HYPE")>>, FALSE) }

HyperliquidFuturesBodies ==
    { Body(<<It("BTC", "", "BTC", "", "", FALSE, <<>>),
             It("MATIC", "", "MATIC", "", "", TRUE, <<>>)>>, <<>>, FALSE),
      Body(<<It("ETH", "", "ETH", "", "", FALSE, <<>>)>>, <<>>, FALSE) }

PairBodies(cls, market) ==
    CASE cls = "BinanceExchange" /\ market = "spot" -> BinanceSpotBodies
      [] cls = "BinanceExchange" /\ market = "futures" -> BinanceFuturesBodies
      [] cls = "BybitExchange" /\ market = "spot" -> BybitSpotBodies
      [] cls = "BybitExchange" /\ market = "futures" -> BybitFuturesBodies
      [] cls = "HyperliquidExchange" /\ market = "spot" -> HyperliquidSpotBodies
      [] OTHER -> HyperliquidFuturesBodies

AllPairBodies ==
    BinanceSpotBodies \cup BinanceFuturesBodies \cup BybitSpotBodies
      \cup BybitFuturesBodies \cup HyperliquidSpotBodies \cup HyperliquidFuturesBodies

(***************************************************************************)
(* Adapters.                                                               *)
(***************************************************************************)
MarketInputs == {"spot", "futures", "margin"}

\* get_supported_markets() of the three adapters
get_supported_markets(cls) == <<"spot", "futures">>

SeqToSet(s) == {s[i] : i \in DOMAIN s}

DefaultQuoteAsset == "USDT"

\* A pair name is the sequence of the parts it is formatted from.
Sym(symbol, pair) == [symbol |-> symbol, pair |-> pair]

MapSym(items) == [i \in DOMAIN items |-> Sym(items[i].base, <<items[i].sym>>)]

\* HyperliquidExchange._normalize_symbol
normalize_symbol(name) == IF name = "USDT0" THEN "USDT" ELSE name

HasToken(tokens, idx) == \E i \in DOMAIN tokens : tokens[i].index = idx

\* Later entries of the token list overwrite earlier ones of the same index.
TokenSymbol(tokens, idx) ==
    LET last == CHOOSE i \in DOMAIN tokens :
                  /\ tokens[i].index = idx
                  /\ \A j \in DOMAIN tokens : tokens[j].index = idx => j <= i
    IN normalize_symbol(tokens[last].name)

\* Outcome of parsing a fetched body: the two symbol lists, or an exception.
Parsed(trading, nonTrading, exc) ==
    [trading |-> trading, nonTrading |-> nonTrading, exc |-> exc]

\* mutant: symbols that are not TRADING are dropped
BinanceParse_dropsInactive(body, exchange) ==
    IF exchange \in {"binance-spot", "binance-futures"}
    THEN Parsed(MapSym(SelectSeq(body.items,
                  LAMBDA it : it.quote = DefaultQuoteAsset /\ it.status = "TRADING")),
                <<>>, NoExc)
    ELSE Parsed(<<>>, <<>>,
                Exc("ValueError", "Invalid Binance exchange type", <<>>, 0, ""))

\* BinanceExchange.fetch_symbols_from_exchange, after the fetch
BinanceParse(body, exchange) ==
    IF exchange = "binance-spot"
    THEN IF body.malformed
         THEN Parsed(<<>>, <<>>, Exc("KeyError", "baseAsset", <<>>, 0, ""))
         ELSE LET q == SelectSeq(body.items, LAMBDA it : it.quote = DefaultQuoteAsset) IN
              Parsed(MapSym(SelectSeq(q, LAMBDA it : it.status = "TRADING")),
                     MapSym(SelectSeq(q, LAMBDA it : it.status # "TRADING")), NoExc)
    ELSE IF exchange = "binance-futures"
    THEN LET q == SelectSeq(body.items,
                    LAMBDA it : it.quote = DefaultQuoteAsset /\ it.ctype = "PERPETUAL") IN
         Parsed(MapSym(SelectSeq(q, LAMBDA it : it.status = "TRADING")),
                MapSym(SelectSeq(q, LAMBDA it : it.status # "TRADING")), NoExc)
    ELSE Parsed(<<>>, <<>>,
                Exc("ValueError", "Invalid Binance exchange type", <<>>, 0, ""))

\* BybitExchange.fetch_symbols_from_exchange, after the fetch
BybitParse(body, exchange) ==
    IF exchange = "bybit-spot"
    THEN Parsed(MapSym(SelectSeq(body.items,
                  LAMBDA it : it.quote = DefaultQuoteAsset /\ it.status = "Trading")),
                <<>>, NoExc)
    ELSE IF exchange = "bybit-futures"
    THEN Parsed(MapSym(SelectSeq(body.items,
                  LAMBDA it : /\ it.quote = DefaultQuoteAsset
                              /\ it.ctype = "LinearPerpetual"
                              /\ it.status = "Trading")),
                <<>>, NoExc)
    ELSE Parsed(<<>>, <<>>,
                Exc("ValueError", "Invalid Bybit exchange type", <<>>, 0, ""))

HyperSpotSym(tokens, it) ==
    Sym(TokenSymbol(tokens, it.toks[1]),
        <<TokenSymbol(tokens, it.toks[1]), "/", TokenSymbol(tokens, it.toks[2])>>)

\* HyperliquidExchange.fetch_symbols_from_exchange, after the fetch
HyperliquidParse(body, exchange) ==
    IF exchange = "hyperliquid-spot"
    THEN LET u == SelectSeq(body.items,
                    LAMBDA it : /\ Len(it.toks) >= 2
                                /\ HasToken(body.tokens, it.toks[1])
                                /\ HasToken(body.tokens, it.toks[2])) IN
         Parsed([i \in DOMAIN u |-> HyperSpotSym(body.tokens, u[i])], <<>>, NoExc)
    ELSE LET tr == SelectSeq(body.items, LAMBDA it : ~it.delisted)
             nt == SelectSeq(body.items, LAMBDA it : it.delisted) IN
         Parsed([i \in DOMAIN tr |-> Sym(tr[i].sym, <<tr[i].sym, "-USD">>)],
                [i \in DOMAIN nt |-> Sym(nt[i].sym, <<nt[i].sym, "-USD">>)], NoExc)

ExchangeTag(cls, market) ==
    CASE cls = "BinanceExchange" -> IF market = "spot" THEN "binance-spot" ELSE "binance-futures"
      [] cls = "BybitExchange" -> IF market = "spot" THEN "bybit-spot" ELSE "bybit-futures"
      [] OTHER -> IF market = "spot" THEN "hyperliquid-spot" ELSE "hyperliquid-futures"

ParseSymbols(cls, body, exchange) ==
    CASE cls = "BinanceExchange" -> BinanceParse(body, exchange)
      [] cls = "BybitExchange" -> BybitParse(body, exchange)
      [] OTHER -> HyperliquidParse(body, exchange)

Pair(s, exchange, active) ==
    [symbol |-> s.symbol, pair |-> s.pair, exchange |-> exchange, is_active |-> active]

PairSet(active, inactive) == [active |-> active, inactive |-> inactive]

NoPairs == PairSet(<<>>, <<>>)

\* BaseExchange.generate_symbol_updates_with_non_trading
generate_symbol_updates_with_non_trading(exchange, trading, nonTrading) ==
    PairSet([i \in DOMAIN trading |-> Pair(trading[i], exchange, TRUE)],
            [i \in DOMAIN nonTrading |-> Pair(nonTrading[i], exchange, FALSE)])

\* every adapter defines process_spot and process_futures
HasProcess(cls, market) == market \in {"spot", "futures"}

(***************************************************************************)
(* State.                                                                  *)
(***************************************************************************)
VARIABLES
    registry,   \* ExchangeFactory._registry: (name, class) in insertion order
    regLog,     \* history of the register calls made after import
    created,    \* outcome of the last ExchangeFactory.create
    inst,       \* the adapter instance the caller holds, or NoInst
    scope,      \* "out" or "in": whether the caller is inside `with inst`
    connOpen,   \* the HTTP connections that are open
    connCount,  \* the number of HTTP connections created so far
    now,        \* time.time()
    call,       \* observation of the last adapter operation
    prev,       \* summary of the fetch_all_pairs call made before `call`
    nCalls,     \* number of adapter operations made so far
    fx,         \* observation of the last direct use of the retrying fetcher
    reply,      \* observation of the last public tool operation
    mcall,      \* observation of the last direct call of an adapter method
    info,       \* observation of the last metadata query of the registry
    callers,    \* the position of each concurrent caller in fetch_all_pairs
    nWrites     \* number of cache writes made by the concurrent callers

vars ==
    <<registry, regLog, created, inst, scope, connOpen, connCount, now,
      call, prev, nCalls, fx, reply, mcall, info, callers, nWrites>>

(***************************************************************************)
(* Registry (ExchangeFactory).                                             *)
(***************************************************************************)
Reg(name, cls) == [name |-> name, cls |-> cls]

\* the module-level registrations
InitialRegistry ==
    <<Reg(NameBinance, "BinanceExchange"), Reg(NameBybit, "BybitExchange"),
      Reg(NameHyperliquid, "HyperliquidExchange")>>

HasKey(reg, key) == \E i \in DOMAIN reg : reg[i].name = key

KeyIndex(reg, key) == CHOOSE i \in DOMAIN reg : reg[i].name = key

\* dict assignment: an existing key keeps its position, a new key is appended
DictSet(reg, key, cls) ==
    IF HasKey(reg, key)
    THEN [reg EXCEPT ![KeyIndex(reg, key)] = Reg(key, cls)]
    ELSE Append(reg, Reg(key, cls))

\* mutant: the name is stored as given
register_caseSensitive(reg, name, cls) == DictSet(reg, name, cls)

\* ExchangeFactory.register
register(reg, name, cls) == DictSet(reg, Lower(name), cls)

\* ExchangeFactory.list_exchanges
list_exchanges(reg) == [i \in DOMAIN reg |-> reg[i].name]

\* ExchangeFactory.create: the class to instantiate, or the ValueError
create(reg, name) ==
    IF HasKey(reg, Lower(name))
    THEN [cls |-> reg[KeyIndex(reg, Lower(name))].cls, exc |-> NoExc]
    ELSE [cls |-> "",
          exc |-> Exc("ValueError", "Exchange not found. Available exchanges",
                      list_exchanges(reg), 0, "")]

\* ExchangeFactory.get_exchange_info: the class is asked for its markets
\* through the classmethod, no instance is made
get_exchange_info(reg, name) ==
    IF HasKey(reg, Lower(name))
    THEN [exc |-> NoExc,
          ret |-> <<name, reg[KeyIndex(reg, Lower(name))].cls,
                    get_supported_markets(reg[KeyIndex(reg, Lower(name))].cls)>>]
    ELSE [exc |-> Exc("ValueError", "Exchange not found. Available exchanges",
                      list_exchanges(reg), 0, ""),
          ret |-> <<>>]

(***************************************************************************)
(* Adapter instance (BaseExchange).                                        *)
(***************************************************************************)
EmptyCache == [m \in {} |-> 0]

NoInst == [cls |-> "", client |-> 0, cache |-> EmptyCache, ttl |-> 0]

\* BaseExchange.__init__ (reached through the adapters' __init__(db_handler))
NewInstance(cls) ==
    [cls |-> cls, client |-> 0, cache |-> EmptyCache, ttl |-> DefaultCacheTtl]

CacheEntry(ts, data) == [ts |-> ts, data |-> data]

\* mutant: an entry is served whatever its age
CacheFresh_ignoresTtl(i, market, t) == market \in DOMAIN i.cache

\* mutant: an entry whose age equals the TTL is still served
CacheFresh_inclusive(i, market, t) ==
    /\ market \in DOMAIN i.cache
    /\ t - i.cache[market].ts <= i.ttl

\* the freshness test of fetch_all_pairs
CacheFresh(i, market, t) ==
    /\ market \in DOMAIN i.cache
    /\ t - i.cache[market].ts < i.ttl

\* Outcome of an adapter operation: the exception or the result, the number
\* of fetcher invocations and of HTTP attempts, the waits slept and the
\* instance's cache afterwards.
Outcome(exc, ret, hit, fetches, attempts, waits, cache) ==
    [exc |-> exc, ret |-> ret, hit |-> hit, fetches |-> fetches,
     attempts |-> attempts, waits |-> waits, cache |-> cache]

\* mutant: no market validation
SupportedMarket_any(cls, market) == TRUE

\* the market validation of fetch_all_pairs
SupportedMarket(cls, market) == market \in SeqToSet(get_supported_markets(cls))

\* BaseExchange.fetch_all_pairs, called at time t; outs are the outcomes the
\* HTTP attempts would have and body the vendor's response.
fetch_all_pairs(i, market, use_cache, outs, body, t) ==
    IF ~SupportedMarket(i.cls, market)
    THEN Outcome(Exc("ValueError", "Unsupported market type",
                     get_supported_markets(i.cls), 0, ""),
                 NoPairs, FALSE, 0, 0, <<>>, i.cache)
    ELSE IF use_cache /\ CacheFresh(i, market, t)
    THEN Outcome(NoExc, i.cache[market].data, TRUE, 0, 0, <<>>, i.cache)
    ELSE IF ~HasProcess(i.cls, market)
    THEN Outcome(Exc("NotImplementedError", "Method not implemented", <<>>, 0, ""),
                 NoPairs, FALSE, 0, 0, <<>>, i.cache)
    ELSE LET f == FetchWithRetry(outs)
             tag == ExchangeTag(i.cls, market)
             p == ParseSymbols(i.cls, body, tag)
             result == generate_symbol_updates_with_non_trading(tag, p.trading, p.nonTrading)
             t2 == t + SumSeq(f.waits)
         IN IF f.exc # NoExc
            THEN Outcome(f.exc, NoPairs, FALSE, 1, f.attempts, f.waits, i.cache)
            ELSE IF p.exc # NoExc
            THEN Outcome(p.exc, NoPairs, FALSE, 1, f.attempts, f.waits, i.cache)
            ELSE Outcome(NoExc, result, FALSE, 1, f.attempts, f.waits,
                         IF use_cache
                         THEN (market :> CacheEntry(t2, result)) @@ i.cache
                         ELSE i.cache)

(***************************************************************************)
(* Connection lifecycle.                                                   *)
(***************************************************************************)
\* Result of releasing the client: the instance, the open connections and
\* the exception httpx raised while closing, if any.
Released(i, open, exc) == [inst |-> i, open |-> open, exc |-> exc]

CloseError == Exc("RuntimeError", "close failed", <<>>, 0, "")

\* mutant: the connection is closed but _client is not reset
close_keepsClient(i, open, closeOk, stays) ==
    IF i.client = 0
    THEN Released(i, open, NoExc)
    ELSE IF closeOk
    THEN Released(i, open \ {i.client}, NoExc)
    ELSE Released(i, IF stays THEN open ELSE open \ {i.client}, CloseError)

\* mutant: closing also empties the cache
close_clearsCache(i, open, closeOk, stays) ==
    IF i.client = 0
    THEN Released([i EXCEPT !.cache = EmptyCache], open, NoExc)
    ELSE IF closeOk
    THEN Released([i EXCEPT !.client = 0, !.cache = EmptyCache], open \ {i.client}, NoExc)
    ELSE Released(i, IF stays THEN open ELSE open \ {i.client}, CloseError)

\* BaseExchange.close.  closeOk: httpx.Client.close() returns; when it
\* raises, _client is not reset and `stays` tells whether the connection is
\* still open.
close(i, open, closeOk, stays) ==
    IF i.client = 0
    THEN Released(i, open, NoExc)
    ELSE IF closeOk
    THEN Released([i EXCEPT !.client = 0], open \ {i.client}, NoExc)
    ELSE Released(i, IF stays THEN open ELSE open \ {i.client}, CloseError)

\* mutant: __exit__ that releases nothing
exit_scope_noClose(i, open, closeOk, stays) == Released(i, open, NoExc)

\* BaseExchange.__exit__: close, and return False (never swallow)
exit_scope(i, open, closeOk, stays) == close(i, open, closeOk, stays)

\* BaseExchange.__del__: close the client, ignoring errors; _client is kept
finalize(i, open, closeOk, stays) ==
    IF i.client = 0 THEN open
    ELSE IF closeOk \/ ~stays THEN open \ {i.client}
    ELSE open

\* the exception that leaves a `with` block whose body raised bodyExc
Propagated(bodyExc, closeExc) == IF closeExc # NoExc THEN closeExc ELSE bodyExc

(***************************************************************************)
(* Data methods of the adapters.  A request carries the arguments the      *)
(* public operations pass on; the vendor's answer to a data request is     *)
(* its rows, an error envelope (Bybit's retCode # 0) or a body of another  *)
(* shape than the adapter reads.                                           *)
(***************************************************************************)
\* None of an Optional[int] argument
None == 0 - 1

\* the value of an argument the caller does not pass
Omitted == "<omitted>"

Req(symbol, interval, market, limit, start_time, end_time, status, markets) ==
    [symbol |-> symbol, interval |-> interval, market |-> market, limit |-> limit,
     start_time |-> start_time, end_time |-> end_time, status |-> status,
     markets |-> markets]

\* Result of an adapter method: the exception or the returned rows, the
\* number of fetcher invocations and of HTTP attempts, and the waits slept.
Result(exc, ret, fetches, attempts, waits) ==
    [exc |-> exc, ret |-> ret, fetches |-> fetches, attempts |-> attempts,
     waits |-> waits]

Raised(e) == Result(e, <<>>, 0, 0, <<>>)

ValueError(text) == Exc("ValueError", text, <<>>, 0, "")

\* a response body: its shape, its rows and, in a Bybit envelope, the
\* retMsg entry ("" when the key is absent)
DataBody(kind, rows) == [kind |-> kind, rows |-> rows, retMsg |-> ""]

\* a Bybit envelope with a non-zero retCode
ErrorBody(retMsg) == [kind |-> "vendor_error", rows |-> <<>>, retMsg |-> retMsg]

NoBody == DataBody("rows", <<>>)

\* list.reverse()
Reverse(s) == [i \in DOMAIN s |-> s[Len(s) + 1 - i]]

\* self._fetch_with_retry(url) followed by the reading of the body, which
\* raises exc or yields ret
FetchThen(outs, exc, ret) ==
    LET f == FetchWithRetry(outs) IN
    IF f.exc # NoExc THEN Result(f.exc, <<>>, 1, f.attempts, f.waits)
    ELSE IF exc # NoExc THEN Result(exc, <<>>, 1, f.attempts, f.waits)
    ELSE Result(NoExc, ret, 1, f.attempts, f.waits)

\* reading the rows of a Binance body
BinanceRowsExc(body, type) ==
    IF body.kind = "rows" THEN NoExc ELSE Exc(type, "unexpected body", <<>>, 0, "")

\* reading the envelope of a Bybit body: retCode, then result.list
BybitEnvelopeExc(body) ==
    IF body.kind = "malformed"
    THEN Exc("AttributeError", "object has no attribute 'get'", <<>>, 0, "")
    ELSE IF body.kind = "vendor_error"
    THEN Exc("Exception", "Bybit API error",
             <<IF body.retMsg = "" THEN "Unknown error" ELSE body.retMsg>>, 0, "")
    ELSE NoExc

Digits == <<"0", "1", "2", "3", "4", "5", "6", "7", "8", "9">>

DigitValue(c) == (CHOOSE i \in DOMAIN Digits : Digits[i] = c) - 1

\* int(s) of a string of decimal digits
RECURSIVE ParseInt(_)
ParseInt(s) ==
    IF s = <<>> THEN 0
    ELSE ParseInt(SubSeq(s, 1, Len(s) - 1)) * 10 + DigitValue(s[Len(s)])

BinanceKlineIntervals ==
    {"1s", "1m", "3m", "5m", "15m", "30m", "1h", "2h", "4h", "6h", "8h", "12h",
     "1d", "3d", "1w", "1M"}

\* mutant: the rows are returned newest first
Binance_fetch_klines_reversed(req, outs, body) ==
    IF req.interval \notin BinanceKlineIntervals
    THEN Raised(ValueError("Invalid interval"))
    ELSE IF req.limit > (IF req.market = "spot" THEN 1000 ELSE 1500)
    THEN Raised(ValueError("Limit cannot exceed"))
    ELSE IF req.market \notin {"spot", "futures"}
    THEN Raised(ValueError("Invalid market type"))
    ELSE FetchThen(outs, BinanceRowsExc(body, "IndexError"), Reverse(body.rows))

\* mutant: a limit above the cap is clamped, not rejected
Binance_fetch_klines_clamped(req, outs, body) ==
    IF req.interval \notin BinanceKlineIntervals
    THEN Raised(ValueError("Invalid interval"))
    ELSE IF req.market \notin {"spot", "futures"}
    THEN Raised(ValueError("Invalid market type"))
    ELSE FetchThen(outs, BinanceRowsExc(body, "IndexError"), body.rows)

\* BinanceExchange.fetch_klines
Binance_fetch_klines(req, outs, body) ==
    IF req.interval \notin BinanceKlineIntervals
    THEN Raised(ValueError("Invalid interval"))
    ELSE IF req.limit > (IF req.market = "spot" THEN 1000 ELSE 1500)
    THEN Raised(ValueError("Limit cannot exceed"))
    ELSE IF req.market \notin {"spot", "futures"}
    THEN Raised(ValueError("Invalid market type"))
    ELSE FetchThen(outs, BinanceRowsExc(body, "IndexError"), body.rows)

\* BinanceExchange.fetch_funding_rate_history
Binance_fetch_funding_rate_history(req, outs, body) ==
    IF req.limit > 1000 \/ req.limit < 1
    THEN Raised(ValueError("Limit must be between 1 and 1000"))
    ELSE FetchThen(outs, BinanceRowsExc(body, "AttributeError"), body.rows)

\* BinanceExchange.fetch_funding_rate_info
Binance_fetch_funding_rate_info(req, outs, body) ==
    FetchThen(outs, BinanceRowsExc(body, "AttributeError"), body.rows)

\* BinanceExchange.fetch_open_interest: one record
Binance_fetch_open_interest(req, outs, body) ==
    FetchThen(outs, BinanceRowsExc(body, "AttributeError"),
              IF body.rows = <<>> THEN <<>> ELSE <<body.rows[1]>>)

BinanceOiPeriods == {"5m", "15m", "30m", "1h", "2h", "4h", "6h", "12h", "1d"}

\* BinanceExchange.fetch_open_interest_history
Binance_fetch_open_interest_history(req, outs, body) ==
    IF req.interval \notin BinanceOiPeriods
    THEN Raised(ValueError("Invalid period"))
    ELSE IF req.limit > 500 \/ req.limit < 1
    THEN Raised(ValueError("Limit must be between 1 and 500"))
    ELSE FetchThen(outs, BinanceRowsExc(body, "AttributeError"), body.rows)

BybitKlineIntervals ==
    {"1", "3", "5", "15", "30", "60", "120", "240", "360", "720", "D", "W", "M"}

\* mutant: the rows are returned in the vendor's order
Bybit_fetch_klines_noReverse(req, outs, body) ==
    IF req.interval \notin BybitKlineIntervals
    THEN Raised(ValueError("Invalid interval"))
    ELSE IF req.limit > 1000 \/ req.limit < 1
    THEN Raised(ValueError("Limit must be between 1 and 1000"))
    ELSE IF req.market \notin {"spot", "futures"}
    THEN Raised(ValueError("Invalid market type"))
    ELSE FetchThen(outs, BybitEnvelopeExc(body),
                   [i \in DOMAIN body.rows |-> ParseInt(body.rows[i])])

\* BybitExchange.fetch_klines: a row's start time is a string of digits,
\* read with int(); the list built from the rows is reversed in place
Bybit_fetch_klines(req, outs, body) ==
    IF req.interval \notin BybitKlineIntervals
    THEN Raised(ValueError("Invalid interval"))
    ELSE IF req.limit > 1000 \/ req.limit < 1
    THEN Raised(ValueError("Limit must be between 1 and 1000"))
    ELSE IF req.market \notin {"spot", "futures"}
    THEN Raised(ValueError("Invalid market type"))
    ELSE FetchThen(outs, BybitEnvelopeExc(body),
                   Reverse([i \in DOMAIN body.rows |-> ParseInt(body.rows[i])]))

\* `if value:` for an Optional[int] argument
Truthy(v) == v # None /\ v # 0

\* the query parameters of the URL BybitExchange.fetch_funding_rate_history
\* requests
Bybit_funding_rate_history_params(req) ==
    {"category", "symbol", "limit"}
      \cup (IF Truthy(req.start_time) THEN {"startTime"} ELSE {})
      \cup (IF Truthy(req.end_time) THEN {"endTime"} ELSE {})

\* mutant: no lower bound on the limit
Bybit_fetch_funding_rate_history_noLower(req, outs, body) ==
    IF req.limit > 200
    THEN Raised(ValueError("Limit must be between 1 and 200"))
    ELSE IF req.start_time # None /\ req.end_time = None
    THEN Raised(ValueError("If startTime is provided, endTime must also be provided"))
    ELSE IF req.market # "futures"
    THEN Raised(ValueError("Invalid market type"))
    ELSE FetchThen(outs, BybitEnvelopeExc(body), body.rows)

\* mutant: the start time is tested for truth, so 0 counts as absent
Bybit_fetch_funding_rate_history_truthy(req, outs, body) ==
    IF req.limit > 200 \/ req.limit < 1
    THEN Raised(ValueError("Limit must be between 1 and 200"))
    ELSE IF req.start_time \notin {None, 0} /\ req.end_time = None
    THEN Raised(ValueError("If startTime is provided, endTime must also be provided"))
    ELSE IF req.market # "futures"
    THEN Raised(ValueError("Invalid market type"))
    ELSE FetchThen(outs, BybitEnvelopeExc(body), body.rows)

\* BybitExchange.fetch_funding_rate_history
Bybit_fetch_funding_rate_history(req, outs, body) ==
    IF req.limit > 200 \/ req.limit < 1
    THEN Raised(ValueError("Limit must be between 1 and 200"))
    ELSE IF req.start_time # None /\ req.end_time = None
    THEN Raised(ValueError("If startTime is provided, endTime must also be provided"))
    ELSE IF req.market # "futures"
    THEN Raised(ValueError("Invalid market type"))
    ELSE FetchThen(outs, BybitEnvelopeExc(body), body.rows)

BybitOiIntervals == {"5min", "15min", "30min", "1h", "4h", "1d"}

\* BybitExchange.fetch_open_interest(symbol, interval, ...): interval has no
\* default value
Bybit_fetch_open_interest(req, outs, body) ==
    IF req.interval = Omitted
    THEN Raised(Exc("TypeError", "missing 1 required positional argument: 'interval'",
                    <<>>, 0, ""))
    ELSE IF req.interval \notin BybitOiIntervals
    THEN Raised(ValueError("Invalid interval"))
    ELSE IF req.limit > 200 \/ req.limit < 1
    THEN Raised(ValueError("Limit must be between 1 and 200"))
    ELSE IF req.market # "futures"
    THEN Raised(ValueError("Invalid market type"))
    ELSE FetchThen(outs, BybitEnvelopeExc(body), body.rows)

\* mutant: the request is made before the refusal
Hyperliquid_fetch_klines_afterFetch(req, outs, body) ==
    FetchThen(outs,
              Exc("NotImplementedError",
                  "Hyperliquid does not provide historical kline/candlestick data",
                  <<"fetch_market_data">>, 0, ""),
              <<>>)

\* HyperliquidExchange.fetch_klines: the message names fetch_market_data
Hyperliquid_fetch_klines(req, outs, body) ==
    Raised(Exc("NotImplementedError",
               "Hyperliquid does not provide historical kline/candlestick data",
               <<"fetch_market_data">>, 0, ""))

\* An asset of the metaAndAssetCtxs response: its universe entry and its
\* context.  Prices are whole numbers of the price unit, None standing for
\* a key the context does not carry.
Asset(name, markPx, prevDayPx) ==
    [name |-> name, markPx |-> markPx, prevDayPx |-> prevDayPx]

\* float(ctx.get(key, 0))
CtxGet(v) == IF v = None THEN 0 ELSE v

\* round() of n / d for d > 0: the nearest integer, a tie going to the even
\* one (the quotients of the prices drawn here are exact in binary or off
\* the tie)
RoundDiv(n, d) ==
    LET q == n \div d
        r == n - q * d
    IN IF 2 * r < d THEN q
       ELSE IF 2 * r > d THEN q + 1
       ELSE IF q % 2 = 0 THEN q ELSE q + 1

\* mutant: the change is cut off after two decimals
price_change_24h_truncated(mark_px, prev_day_px) ==
    IF prev_day_px > 0 THEN ((mark_px - prev_day_px) * 10000) \div prev_day_px ELSE 0

\* round(price_change_24h, 2), in hundredths of a percent
price_change_24h(mark_px, prev_day_px) ==
    IF prev_day_px > 0 THEN RoundDiv((mark_px - prev_day_px) * 10000, prev_day_px) ELSE 0

\* the market_data entry of an asset
MarketData(a) ==
    [symbol |-> a.name, mark_price |-> a.markPx, prev_day_price |-> a.prevDayPx,
     price_change_24h |-> price_change_24h(CtxGet(a.markPx), CtxGet(a.prevDayPx))]

\* HyperliquidExchange.fetch_market_data: the rows are the assets of the
\* universe, filtered by symbol when one is given
Hyperliquid_fetch_market_data(req, outs, body) ==
    FetchThen(outs,
              IF body.kind = "rows" THEN NoExc
              ELSE Exc("KeyError", "0", <<>>, 0, ""),
              LET sel == SelectSeq(body.rows,
                                   LAMBDA a : req.symbol = "" \/ a.name = req.symbol)
              IN [k \in DOMAIN sel |-> MarketData(sel[k])])

\* BinanceExchange.fetch_symbols_from_exchange(url, exchange): the fetch
\* comes first, the tag is examined afterwards
Binance_fetch_symbols_from_exchange(exchange, outs, body) ==
    LET p == BinanceParse(body, exchange) IN FetchThen(outs, p.exc, p)

\* BybitExchange.fetch_symbols_from_exchange(url, exchange): likewise
Bybit_fetch_symbols_from_exchange(exchange, outs, body) ==
    LET p == BybitParse(body, exchange) IN FetchThen(outs, p.exc, p)

\* HyperliquidExchange.fetch_symbols_from_exchange(url, exchange): each
\* branch of the tag test makes its own fetch, the else branch makes none
Hyperliquid_fetch_symbols_from_exchange(exchange, outs, body) ==
    IF exchange \in {"hyperliquid-spot", "hyperliquid-futures"}
    THEN LET p == HyperliquidParse(body, exchange) IN FetchThen(outs, p.exc, p)
    ELSE Raised(ValueError("Invalid Hyperliquid exchange type"))

fetch_symbols_from_exchange(cls, exchange, outs, body) ==
    CASE cls = "BinanceExchange" -> Binance_fetch_symbols_from_exchange(exchange, outs, body)
      [] cls = "BybitExchange" -> Bybit_fetch_symbols_from_exchange(exchange, outs, body)
      [] OTHER -> Hyperliquid_fetch_symbols_from_exchange(exchange, outs, body)

DataMethods ==
    {"fetch_klines", "fetch_funding_rate_history", "fetch_funding_rate_info",
     "fetch_open_interest", "fetch_open_interest_history", "fetch_market_data"}

\* hasattr(exchange_instance, method)
HasAttr(cls, method) ==
    CASE method = "fetch_klines" -> TRUE
      [] method = "fetch_funding_rate_history" -> cls \in {"BinanceExchange", "BybitExchange"}
      [] method = "fetch_funding_rate_info" -> cls = "BinanceExchange"
      [] method = "fetch_open_interest" -> cls \in {"BinanceExchange", "BybitExchange"}
      [] method = "fetch_open_interest_history" -> cls = "BinanceExchange"
      [] method = "fetch_market_data" -> cls = "HyperliquidExchange"
      [] OTHER -> FALSE

\* whether the adapter provides the capability: the method exists and is
\* not a stub that always raises NotImplementedError
Implements(cls, method) ==
    HasAttr(cls, method) /\ ~(cls = "HyperliquidExchange" /\ method = "fetch_klines")

\* exchange_instance.<method>(...)
CallMethod(cls, method, req, outs, body) ==
    IF ~HasAttr(cls, method)
    THEN Raised(Exc("AttributeError", "object has no attribute", <<>>, 0, ""))
    ELSE CASE method = "fetch_klines" /\ cls = "BinanceExchange" ->
                Binance_fetch_klines(req, outs, body)
           [] method = "fetch_klines" /\ cls = "BybitExchange" ->
                Bybit_fetch_klines(req, outs, body)
           [] method = "fetch_klines" /\ cls = "HyperliquidExchange" ->
                Hyperliquid_fetch_klines(req, outs, body)
           [] method = "fetch_funding_rate_history" /\ cls = "BinanceExchange" ->
                Binance_fetch_funding_rate_history(req, outs, body)
           [] method = "fetch_funding_rate_history" /\ cls = "BybitExchange" ->
                Bybit_fetch_funding_rate_history(req, outs, body)
           [] method = "fetch_funding_rate_info" ->
                Binance_fetch_funding_rate_info(req, outs, body)
           [] method = "fetch_open_interest" /\ cls = "BinanceExchange" ->
                Binance_fetch_open_interest(req, outs, body)
           [] method = "fetch_open_interest" /\ cls = "BybitExchange" ->
                Bybit_fetch_open_interest(req, outs, body)
           [] method = "fetch_open_interest_history" ->
                Binance_fetch_open_interest_history(req, outs, body)
           [] OTHER -> Hyperliquid_fetch_market_data(req, outs, body)

\* the vendor answers to a data request
DataBodies(cls, method) ==
    IF method = "fetch_market_data"
    THEN {DataBody("rows", <<Asset("BTC", 101540, 102983), Asset("ETH", 33, 32)>>),
          DataBody("malformed", <<>>)}
    ELSE IF cls = "BybitExchange" /\ method = "fetch_klines"
    THEN {DataBody("rows", <<<<"3", "0">>, <<"2", "0">>, <<"1", "0">>>>),
          ErrorBody("Symbol Invalid"), DataBody("malformed", <<>>)}
    ELSE IF cls = "BybitExchange"
    THEN {DataBody("rows", <<30, 20, 10>>), ErrorBody("Symbol Invalid"),
          DataBody("malformed", <<>>)}
    ELSE {DataBody("rows", <<10, 20, 30>>), DataBody("malformed", <<>>)}

(***************************************************************************)
(* Public tool operations (app.py).  Each one is                           *)
(*     try: with ExchangeFactory.create(exchange) as exchange_instance:    *)
(*              <probe> <adapter call> ...                                 *)
(*     except <clauses, in order>: return <error payload>                  *)
(* and is modelled whole: creation, probing, the adapter call, __exit__,   *)
(* the collaborator called after the block, and the except clauses.        *)
(***************************************************************************)
PairTools == {"get_trading_pairs", "export_trading_pairs"}

KlineTools ==
    {"get_klines", "export_klines", "calculate_indicator",
     "calculate_multiple_indicators", "export_indicator_data"}

ExportTools ==
    {"export_klines", "export_funding_rate", "export_open_interest",
     "export_trading_pairs"}

IndicatorTools ==
    {"calculate_indicator", "calculate_multiple_indicators", "export_indicator_data"}

ToolNames ==
    {"get_trading_pairs", "compare_exchange_pairs", "get_market_data", "get_klines",
     "get_funding_rate_history", "get_funding_rate_info", "get_open_interest",
     "get_open_interest_history"} \cup ExportTools \cup IndicatorTools

\* the method a tool tests with hasattr before calling it ("" when it does
\* not probe)
ProbeOf(tool) ==
    CASE tool = "get_market_data" -> "fetch_market_data"
      [] tool = "get_funding_rate_history" -> "fetch_funding_rate_history"
      [] tool = "get_funding_rate_info" -> "fetch_funding_rate_info"
      [] tool = "get_open_interest" -> "fetch_open_interest"
      [] tool = "get_open_interest_history" -> "fetch_open_interest_history"
      [] OTHER -> ""

\* the adapter capability a tool is about ("" for the pair listing, which
\* every adapter provides)
MethodOf(tool) ==
    CASE tool \in KlineTools -> "fetch_klines"
      [] tool \in {"get_funding_rate_history", "export_funding_rate"} ->
            "fetch_funding_rate_history"
      [] tool \in {"get_open_interest", "export_open_interest"} -> "fetch_open_interest"
      [] tool = "get_funding_rate_info" -> "fetch_funding_rate_info"
      [] tool = "get_open_interest_history" -> "fetch_open_interest_history"
      [] tool = "get_market_data" -> "fetch_market_data"
      [] OTHER -> ""

\* an except clause: the class caught, the payload's "error" and "status"
\* entries ("" when the key is absent), the fixed "error_type" ("" when it
\* is type(e).__name__) and the request parameters echoed
Clause(catch, error, status, typeName, params) ==
    [catch |-> catch, error |-> error, status |-> status, typeName |-> typeName,
     params |-> params]

ErrorClauses(params) ==
    <<Clause("ValueError", "Invalid input", "", "ValueError", params),
      Clause("HTTPError", "API request failed", "", "HTTPError", params),
      Clause("Exception", "Unexpected error", "", "", params)>>

StatusClauses(params) ==
    <<Clause("ValueError", "", "error", "ValueError", params),
      Clause("Exception", "", "error", "", params)>>

\* mutant: the tools lack their last clause, `except Exception`
Clauses_noCatchAll(tool) ==
    IF tool \in ExportTools \cup IndicatorTools
    THEN <<Clause("ValueError", "", "error", "ValueError", {"exchange", "symbol"})>>
    ELSE <<Clause("ValueError", "Invalid input", "", "ValueError", {"exchange"}),
           Clause("HTTPError", "API request failed", "", "HTTPError", {"exchange"})>>

\* the except clauses of a tool, in order
Clauses(tool) ==
    CASE tool = "get_trading_pairs" -> ErrorClauses({"exchange", "market"})
      [] tool = "compare_exchange_pairs" -> ErrorClauses({"exchange", "markets"})
      [] tool = "get_market_data" -> ErrorClauses({"exchange", "symbol"})
      [] tool = "get_klines" ->
            <<Clause("ValueError", "Invalid input", "", "ValueError",
                     {"exchange", "symbol", "interval", "market"}),
              Clause("HTTPError", "API request failed", "", "HTTPError",
                     {"exchange", "symbol", "interval", "market"}),
              Clause("NotImplementedError", "Feature not supported", "",
                     "NotImplementedError", {"exchange"}),
              Clause("Exception", "Unexpected error", "", "",
                     {"exchange", "symbol", "interval", "market"})>>
      [] tool = "get_funding_rate_history" -> ErrorClauses({"exchange", "symbol"})
      [] tool = "get_funding_rate_info" ->
            <<Clause("HTTPError", "API request failed", "", "HTTPError", {"exchange"}),
              Clause("Exception", "Unexpected error", "", "", {"exchange"})>>
      [] tool = "get_open_interest" -> ErrorClauses({"exchange", "symbol"})
      [] tool = "get_open_interest_history" ->
            ErrorClauses({"exchange", "symbol", "period"})
      [] tool = "export_trading_pairs" -> StatusClauses({"exchange", "market"})
      [] OTHER -> StatusClauses({"exchange", "symbol"})

\* the payload a tool returns: the "error", "status", "error_type" and
\* "message" entries ("" when the key is absent), the request parameters
\* it echoes and the number of rows it carries (-1 when it carries none)
Payload(error, status, error_type, message, params, count) ==
    [error |-> error, status |-> status, error_type |-> error_type,
     message |-> message, params |-> params, count |-> count]

NoPayload == Payload("", "", "", "", {}, 0 - 1)

\* the first clause that catches e, 0 when none does
CatchingClause(tool, e) ==
    LET cs == Clauses(tool)
        m == {k \in DOMAIN cs : IsInstance(e.type, cs[k].catch)}
    IN IF m = {} THEN 0 ELSE CHOOSE k \in m : \A j \in m : k <= j

HandlerPayload(tool, e) ==
    LET cl == Clauses(tool)[CatchingClause(tool, e)] IN
    Payload(cl.error, cl.status, IF cl.typeName = "" THEN e.type ELSE cl.typeName,
            e.text, cl.params, 0 - 1)

\* the early return of a tool whose probe finds no such method
NotSupportedPayload ==
    Payload("Feature not supported", "", "NotImplementedError",
            "Exchange does not support this feature", {"exchange"}, 0 - 1)

\* what the collaborator called after the `with` block does: nothing (the
\* get_* tools return inside the block), the exporter returns its success
\* or its error dictionary, the indicator library returns or raises
PostKinds(tool) ==
    CASE tool \in ExportTools -> {"exported", "export_error"}
      [] tool = "export_indicator_data" ->
            {"exported", "export_error", "ValueError", "KeyError"}
      [] tool \in IndicatorTools -> {"computed", "ValueError", "KeyError"}
      [] OTHER -> {"none"}

PostExc(post) ==
    IF post \in {"ValueError", "KeyError"}
    THEN Exc(post, "indicator calculation failed", <<>>, 0, "")
    ELSE NoExc

SuccessParams(tool) ==
    CASE tool \in PairTools -> {"exchange", "market", "status_filter"}
      [] tool = "compare_exchange_pairs" -> {"exchange", "markets_compared"}
      [] tool = "get_market_data" -> {"exchange", "symbol_filter"}
      [] tool = "get_klines" ->
            {"exchange", "symbol", "interval", "market", "start_time", "end_time"}
      [] tool = "get_funding_rate_history" ->
            {"exchange", "symbol_filter", "start_time", "end_time", "limit"}
      [] tool = "get_funding_rate_info" -> {"exchange"}
      [] tool = "get_open_interest" -> {"exchange", "symbol"}
      [] tool = "get_open_interest_history" ->
            {"exchange", "symbol", "period", "limit", "start_time", "end_time"}
      [] tool \in {"export_funding_rate", "export_open_interest"} ->
            {"exchange", "symbol", "data_type"}
      [] OTHER -> {"exchange", "symbol", "interval", "market"}

\* the payload of a tool whose work raised nothing
SuccessPayload(tool, res, post) ==
    IF post = "export_error"
    THEN Payload("cannot write file", "error", "OSError", "", SuccessParams(tool), 0 - 1)
    ELSE Payload("", IF post = "exported" THEN "success" ELSE "", "", "",
                 SuccessParams(tool), Len(res.ret))

\* the inputs of one run of a tool besides its arguments
ToolIn(outs, body, pbody, outs2, pbody2) ==
    [outs |-> outs, body |-> body, pbody |-> pbody, outs2 |-> outs2, pbody2 |-> pbody2]

\* what the body of the `with` block does: the adapter method called ("" if
\* none was) and its result
Did(called, res) == [called |-> called, res |-> res]

\* the pairs a pair tool keeps of a fetch_all_pairs outcome
FilterPairs(o, status) ==
    Result(o.exc,
           IF o.exc # NoExc THEN <<>>
           ELSE IF status = "active" THEN o.ret.active
           ELSE IF status = "inactive" THEN o.ret.inactive
           ELSE o.ret.active \o o.ret.inactive,
           o.fetches, o.attempts, o.waits)

\* compare_exchange_pairs: the loop over markets on one instance
ComparePairs(cls, markets, in, t) ==
    LET i0 == NewInstance(cls)
        o1 == fetch_all_pairs(i0, markets[1], TRUE, in.outs, in.pbody, t)
        i1 == [i0 EXCEPT !.cache = o1.cache]
        o2 == fetch_all_pairs(i1, markets[2], TRUE, in.outs2, in.pbody2,
                              t + SumSeq(o1.waits))
    IN IF o1.exc # NoExc
       THEN Result(o1.exc, <<>>, o1.fetches, o1.attempts, o1.waits)
       ELSE Result(o2.exc, IF o2.exc # NoExc THEN <<>> ELSE o1.ret.active \o o2.ret.active,
                   o1.fetches + o2.fetches, o1.attempts + o2.attempts,
                   o1.waits \o o2.waits)

\* the body of the `with` block of a tool, after its probe
WithBody(tool, cls, exchange, req, in, t) ==
    CASE tool \in PairTools ->
            Did("fetch_all_pairs",
                FilterPairs(fetch_all_pairs(NewInstance(cls), req.market, TRUE,
                                            in.outs, in.pbody, t), req.status))
      [] tool = "compare_exchange_pairs" ->
            Did("fetch_all_pairs", ComparePairs(cls, req.markets, in, t))
      [] tool \in {"get_klines", "export_klines"} ->
            Did("fetch_klines", CallMethod(cls, "fetch_klines", req, in.outs, in.body))
      [] tool \in IndicatorTools ->
            Did("fetch_klines",
                CallMethod(cls, "fetch_klines",
                           [req EXCEPT !.start_time = None, !.end_time = None],
                           in.outs, in.body))
      [] tool = "get_market_data" ->
            Did("fetch_market_data",
                CallMethod(cls, "fetch_market_data", req, in.outs, in.body))
      [] tool = "get_funding_rate_history" ->
            Did("fetch_funding_rate_history",
                CallMethod(cls, "fetch_funding_rate_history",
                           [req EXCEPT !.market = "futures"], in.outs, in.body))
      [] tool = "get_funding_rate_info" ->
            Did("fetch_funding_rate_info",
                CallMethod(cls, "fetch_funding_rate_info", req, in.outs, in.body))
      [] tool = "get_open_interest" ->
            Did("fetch_open_interest",
                CallMethod(cls, "fetch_open_interest",
                           [req EXCEPT !.interval = Omitted, !.market = "futures",
                                       !.limit = 50, !.start_time = None,
                                       !.end_time = None],
                           in.outs, in.body))
      [] tool = "get_open_interest_history" ->
            Did("fetch_open_interest_history",
                CallMethod(cls, "fetch_open_interest_history", req, in.outs, in.body))
      [] tool = "export_funding_rate" ->
            IF exchange = NameBinance \/ exchange = NameBybit
            THEN Did("fetch_funding_rate_history",
                     CallMethod(cls, "fetch_funding_rate_history",
                                [req EXCEPT !.market = "futures"], in.outs, in.body))
            ELSE Did("", Raised(ValueError("Funding rate not supported")))
      [] OTHER ->
            IF exchange = NameBinance
            THEN IF req.interval # ""
                 THEN Did("fetch_open_interest_history",
                          CallMethod(cls, "fetch_open_interest_history", req,
                                     in.outs, in.body))
                 ELSE Did("fetch_open_interest",
                          CallMethod(cls, "fetch_open_interest", req, in.outs, in.body))
            ELSE IF exchange = NameBybit
            THEN IF req.interval = ""
                 THEN Did("", Raised(ValueError(
                              "interval parameter is required for Bybit open interest")))
                 ELSE Did("fetch_open_interest",
                          CallMethod(cls, "fetch_open_interest",
                                     [req EXCEPT !.market = "futures"],
                                     in.outs, in.body))
            ELSE Did("", Raised(ValueError("Open interest not supported")))

\* Observation of a tool run: its arguments, the class created, whether the
\* probe refused, the adapter method called, the exception the try block
\* raised, the payload returned, the exception that left the tool, the
\* network activity and the connection of the run, and the attempt outcomes
\* and the vendor response it was exposed to.
Reply(tool, exchange, req, cls, denied, w, in, exc, payload, raised, held, closeExc, post) ==
    [tool |-> tool, exchange |-> exchange, req |-> req, cls |-> cls,
     denied |-> denied, called |-> w.called, fetches |-> w.res.fetches,
     attempts |-> w.res.attempts, waits |-> w.res.waits, outs |-> in.outs,
     body |-> in.body,
     exc |-> exc, payload |-> payload, raised |-> raised, held |-> held,
     closeExc |-> closeExc, post |-> post]

NoReq == Req("", "", "", 0, None, None, "", <<>>)

OkOuts == OutSeq(0, "transport")

NoIn == ToolIn(OkOuts, NoBody, Body(<<>>, <<>>, FALSE), OkOuts, Body(<<>>, <<>>, FALSE))

NoReply ==
    Reply("", <<>>, NoReq, "", FALSE, Did("", Raised(NoExc)), NoIn, NoExc,
          NoPayload, NoExc, 0, NoExc, "")

\* The try block up to the end of the `with` body: creation, the probe and
\* the adapter work, at time t.
Attempted(tool, exchange, req, in, reg, t) ==
    LET c == create(reg, exchange) IN
    IF c.exc # NoExc
    THEN [cls |-> "", createExc |-> c.exc, denied |-> FALSE, called |-> "",
          res |-> Raised(NoExc)]
    ELSE IF ProbeOf(tool) # "" /\ ~HasAttr(c.cls, ProbeOf(tool))
    THEN [cls |-> c.cls, createExc |-> NoExc, denied |-> TRUE, called |-> "",
          res |-> Raised(NoExc)]
    ELSE [cls |-> c.cls, createExc |-> NoExc, denied |-> FALSE] @@
         WithBody(tool, c.cls, exchange, req, in, t)

\* Leaving the `with` block: __exit__ closes the client the adapter work
\* opened (connection number conn), with outcome ch of httpx's close(); the
\* instance is then garbage.
Left(w, ch, conn, open) ==
    IF w.createExc # NoExc
    THEN [exc |-> w.createExc, held |-> 0, closeExc |-> NoExc, open |-> open]
    ELSE LET opened == w.res.attempts > 0
             i1 == [NewInstance(w.cls) EXCEPT !.client = IF opened THEN conn ELSE 0]
             x == exit_scope(i1, IF opened THEN open \cup {conn} ELSE open, ch[1], ch[2])
         IN [exc |-> Propagated(w.res.exc, x.exc), held |-> i1.client,
             closeExc |-> x.exc, open |-> finalize(x.inst, x.open, ch[1], ch[2])]

\* The rest of the try statement: the collaborator after the block, and the
\* except clauses.
Concluded(tool, exchange, req, in, w, x, post) ==
    LET e == IF x.exc # NoExc THEN x.exc
             ELSE IF w.denied THEN NoExc
             ELSE PostExc(post)
        k == IF e = NoExc THEN 0 ELSE CatchingClause(tool, e)
    IN Reply(tool, exchange, req, w.cls, w.denied, w, in, e,
             IF e # NoExc
             THEN IF k # 0 THEN HandlerPayload(tool, e) ELSE NoPayload
             ELSE IF w.denied THEN NotSupportedPayload
             ELSE SuccessPayload(tool, w.res, post),
             IF e # NoExc /\ k = 0 THEN e ELSE NoExc,
             x.held, x.closeExc,
             IF x.exc = NoExc /\ ~w.denied THEN post ELSE "")

\* attempt outcomes used for the tools
ToolOuts == {OutSeq(k, "transport") : k \in {0, 1, StopAttempts}}
               \cup {OutSeq(StopAttempts, "status")}

\* whether a run with these arguments reaches the network
ReachesNetwork(tool, cls, exchange, req, t) ==
    LET pb == CHOOSE b \in PairBodies(cls, req.market) : TRUE
        d == WithBody(tool, cls, exchange, req,
                      ToolIn(OkOuts, NoBody, pb, OkOuts, pb), t)
    IN d.res.attempts > 0

\* The attempt outcomes and vendor bodies a run is exposed to; the outcomes
\* are read only by a run that reaches the network, and the body of a data
\* request only when its fetch succeeds.
ToolInputs(tool, exchange, req, reg, t) ==
    LET c == create(reg, exchange)
        cls == c.cls
        probe == ProbeOf(tool)
    IN IF c.exc # NoExc THEN {NoIn}
       ELSE IF probe # "" /\ ~HasAttr(cls, probe) THEN {NoIn}
       ELSE IF tool = "compare_exchange_pairs"
       THEN {ToolIn(o1, NoBody, b1, o2, b2) :
               o1 \in CacheOuts, o2 \in CacheOuts,
               b1 \in PairBodies(cls, req.markets[1]),
               b2 \in PairBodies(cls, req.markets[2])}
       ELSE IF ~ReachesNetwork(tool, cls, exchange, req, t) THEN {NoIn}
       ELSE IF tool \in PairTools
       THEN {ToolIn(o, NoBody, b, OkOuts, b) :
               o \in ToolOuts, b \in PairBodies(cls, req.market)}
       ELSE {ToolIn(o, b, Body(<<>>, <<>>, FALSE), OkOuts, Body(<<>>, <<>>, FALSE)) :
               o \in {u \in ToolOuts : FetchWithRetry(u).exc = NoExc},
               b \in DataBodies(cls, MethodOf(tool))}
            \cup {ToolIn(o, NoBody, Body(<<>>, <<>>, FALSE), OkOuts, Body(<<>>, <<>>, FALSE)) :
                    o \in {u \in ToolOuts : FetchWithRetry(u).exc # NoExc}}

(***************************************************************************)
(* Observations.                                                           *)
(***************************************************************************)
CallObs(op, market, useCache, t0, o, held, exitPath, closeExc, propagated) ==
    [op |-> op, market |-> market, useCache |-> useCache, t0 |-> t0,
     exc |-> o.exc, ret |-> o.ret, hit |-> o.hit, fetches |-> o.fetches,
     attempts |-> o.attempts, waits |-> o.waits,
     held |-> held, exitPath |-> exitPath, closeExc |-> closeExc,
     propagated |-> propagated]

NoOutcome == Outcome(NoExc, NoPairs, FALSE, 0, 0, <<>>, EmptyCache)

NoCall == CallObs("", "", FALSE, 0, NoOutcome, 0, "", NoExc, NoExc)

PrevObs(market, useCache, ok, ret, fetches, ts) ==
    [market |-> market, useCache |-> useCache, ok |-> ok, ret |-> ret,
     fetches |-> fetches, ts |-> ts]

NoPrev == PrevObs("", FALSE, FALSE, NoPairs, 0, 0)

\* what a fetch_all_pairs call leaves for the next one to be compared with
PrevOf(c, i) ==
    PrevObs(c.market, c.useCache, c.exc = NoExc, c.ret, c.fetches,
            IF c.market \in DOMAIN i.cache THEN i.cache[c.market].ts ELSE 0)

NoFx == [method |-> "", outs |-> <<>>, attempts |-> 0, waits |-> <<>>, exc |-> NoExc]

NoCreated == [name |-> <<>>, cls |-> "", exc |-> NoExc, at |-> 0]

\* Observation of a direct call of an adapter method: the arguments, the
\* attempt outcomes and the vendor response it was exposed to, its result,
\* the instance's client and cache and the number of connections before
\* the call, the time of the call, and the previous call when that was a
\* fetch_klines that returned.
MethodObs(method, req, tag, useCache, t0, in, r, i, conns, last) ==
    [method |-> method, cls |-> i.cls, req |-> req, tag |-> tag,
     use_cache |-> useCache, t0 |-> t0, outs |-> in[1], body |-> in[2],
     exc |-> r.exc, ret |-> r.ret, fetches |-> r.fetches, attempts |-> r.attempts,
     waits |-> r.waits, clientBefore |-> i.client, cacheBefore |-> i.cache,
     connsBefore |-> conns, last |-> last]

NoLast == [req |-> NoReq, body |-> NoBody, ret |-> <<>>]

NoMethodCall ==
    MethodObs("", NoReq, "", FALSE, 0, <<OkOuts, NoBody>>, Raised(NoExc), NoInst, 0,
              NoLast)

\* Observation of a metadata query: the operation, the name asked for and
\* the exception or the value returned.
InfoObs(op, name, exc, ret) == [op |-> op, name |-> name, exc |-> exc, ret |-> ret]

NoInfo == InfoObs("", <<>>, NoExc, <<>>)

\* the callers that use one instance concurrently
Callers == {"A", "B"}

\* A caller inside fetch_all_pairs: where it is, the market it asked for,
\* the time of its call, whether it was served from the cache, the network
\* calls it made, what process_<market>() gave it, the exception or the
\* value it returned, and the rank of its write among the cache writes.
CallerAt(pc, market, t0, hit, fetches, result, exc, ret, wrote, ts) ==
    [pc |-> pc, market |-> market, t0 |-> t0, hit |-> hit, fetches |-> fetches,
     result |-> result, exc |-> exc, ret |-> ret, wrote |-> wrote, ts |-> ts]

Idle == CallerAt("idle", "", 0, FALSE, 0, NoPairs, NoExc, NoPairs, 0, 0)

Init ==
    /\ mcall = NoMethodCall
    /\ info = NoInfo
    /\ callers = [c \in Callers |-> Idle]
    /\ nWrites = 0
    /\ registry = InitialRegistry
    /\ regLog = <<>>
    /\ created = NoCreated
    /\ inst = NoInst
    /\ scope = "out"
    /\ connOpen = {}
    /\ connCount = 0
    /\ now = 0
    /\ call = NoCall
    /\ prev = NoPrev
    /\ nCalls = 0
    /\ fx = NoFx
    /\ reply = NoReply

(***************************************************************************)
(* Registry actions.                                                       *)
(***************************************************************************)
Register(name, cls) ==
    /\ Len(regLog) < MaxRegs
    /\ registry' = register(registry, name, cls)
    /\ regLog' = Append(regLog, Reg(name, cls))
    /\ UNCHANGED <<created, inst, scope, connOpen, connCount, now, call, prev,
                   nCalls, fx, reply, mcall,
                   info, callers, nWrites>>

\* ExchangeFactory.create(name); the caller keeps the instance
Create(name) ==
    /\ inst = NoInst
    /\ LET c == create(registry, name) IN
       /\ created' = [name |-> name, cls |-> c.cls, exc |-> c.exc, at |-> Len(regLog)]
       /\ inst' = IF c.exc = NoExc THEN NewInstance(c.cls) ELSE NoInst
    /\ prev' = NoPrev
    /\ call' = NoCall
    /\ UNCHANGED <<registry, regLog, scope, connOpen, connCount, now, nCalls, fx, reply, mcall,
                   info, callers, nWrites>>

\* An adapter is constructed through BaseExchange.__init__(db_handler,
\* cache_ttl): the way an instance gets a TTL other than the default, the
\* adapters' own constructors passing none.
Construct(cls, cache_ttl) ==
    /\ inst = NoInst
    /\ inst' = [NewInstance(cls) EXCEPT !.ttl = cache_ttl]
    /\ created' = NoCreated
    /\ prev' = NoPrev
    /\ call' = NoCall
    /\ UNCHANGED <<registry, regLog, scope, connOpen, connCount, now, nCalls, fx, reply, mcall,
                   info, callers, nWrites>>

\* ExchangeFactory.list_exchanges()
ListExchanges ==
    /\ info' = InfoObs("list_exchanges", <<>>, NoExc, list_exchanges(registry))
    /\ UNCHANGED <<registry, regLog, created, inst, scope, connOpen, connCount, now,
                   call, prev, nCalls, fx, reply, mcall, callers, nWrites>>

\* ExchangeFactory.get_exchange_info(name)
GetExchangeInfo(name) ==
    /\ LET r == get_exchange_info(registry, name) IN
       info' = InfoObs("get_exchange_info", name, r.exc, r.ret)
    /\ UNCHANGED <<registry, regLog, created, inst, scope, connOpen, connCount, now,
                   call, prev, nCalls, fx, reply, mcall, callers, nWrites>>

(***************************************************************************)
(* Adapter actions.                                                        *)
(***************************************************************************)
\* the most recent fetch_all_pairs call, as the next operation finds it
LastFetchAllPairs ==
    IF call.op = "fetch_all_pairs" THEN PrevOf(call, inst) ELSE prev

TickSteps == {30}

Tick(d) ==
    /\ now + d <= MaxTime
    /\ now' = now + d
    /\ UNCHANGED <<registry, regLog, created, inst, scope, connOpen, connCount,
                   call, prev, nCalls, fx, reply, mcall,
                   info, callers, nWrites>>

\* with inst: ...   (__enter__ returns self)
EnterScope ==
    /\ inst # NoInst
    /\ scope = "out"
    /\ scope' = "in"
    /\ UNCHANGED <<registry, regLog, created, inst, connOpen, connCount, now,
                   call, prev, nCalls, fx, reply, mcall,
                   info, callers, nWrites>>

CloseChoices(i) ==
    IF i.client = 0 THEN {<<TRUE, FALSE>>}
    ELSE {<<TRUE, FALSE>>, <<FALSE, TRUE>>, <<FALSE, FALSE>>}

\* leaving the `with` block without an exception: at its end or by a return
ExitScope(path) ==
    /\ scope = "in"
    /\ \E ch \in CloseChoices(inst) :
         LET r == exit_scope(inst, connOpen, ch[1], ch[2]) IN
         /\ inst' = r.inst
         /\ connOpen' = r.open
         /\ call' = CallObs("__exit__", "", FALSE, now, NoOutcome, inst.client,
                            path, r.exc, r.exc)
    /\ scope' = "out"
    /\ prev' = LastFetchAllPairs
    /\ UNCHANGED <<registry, regLog, created, connCount, now, nCalls, fx, reply, mcall,
                   info, callers, nWrites>>

\* inst.close() called directly
Close ==
    /\ inst # NoInst
    /\ \E ch \in CloseChoices(inst) :
         LET r == close(inst, connOpen, ch[1], ch[2]) IN
         /\ inst' = r.inst
         /\ connOpen' = r.open
         /\ call' = CallObs("close", "", FALSE, now, NoOutcome, inst.client,
                            "", r.exc, r.exc)
    /\ prev' = LastFetchAllPairs
    /\ UNCHANGED <<registry, regLog, created, scope, connCount, now, nCalls, fx, reply, mcall,
                   info, callers, nWrites>>

\* the caller drops the instance: __del__ runs
Discard ==
    /\ inst # NoInst
    /\ scope = "out"
    /\ \E ch \in CloseChoices(inst) :
         connOpen' = finalize(inst, connOpen, ch[1], ch[2])
    /\ inst' = NoInst
    /\ call' = NoCall
    /\ prev' = NoPrev
    /\ UNCHANGED <<registry, regLog, created, scope, connCount, now, nCalls, fx, reply, mcall,
                   info, callers, nWrites>>

\* The state change of an adapter operation with outcome o made on inst:
\* the lazily created client, the clock and, when the operation raises
\* inside the `with` block and the body does not catch it, __exit__.
Perform(op, market, useCache, o) ==
    LET opened == o.attempts > 0 /\ inst.client = 0
        i1 == [inst EXCEPT !.cache = o.cache,
                           !.client = IF opened THEN connCount + 1 ELSE @]
        open1 == IF opened THEN connOpen \cup {connCount + 1} ELSE connOpen
    IN
    /\ nCalls < MaxCalls
    /\ opened => connCount < MaxConns
    /\ now + SumSeq(o.waits) <= MaxTime
    /\ now' = now + SumSeq(o.waits)
    /\ connCount' = IF opened THEN connCount + 1 ELSE connCount
    /\ nCalls' = nCalls + 1
    /\ \/ /\ o.exc = NoExc \/ scope = "out"
          /\ inst' = i1
          /\ connOpen' = open1
          /\ scope' = scope
          /\ call' = CallObs(op, market, useCache, now, o, i1.client, "", NoExc, o.exc)
       \/ /\ o.exc # NoExc /\ scope = "in"
          /\ \/ /\ inst' = i1
                /\ connOpen' = open1
                /\ scope' = scope
                /\ call' = CallObs(op, market, useCache, now, o, i1.client, "",
                                   NoExc, NoExc)
             \/ \E ch \in CloseChoices(i1) :
                  LET r == exit_scope(i1, open1, ch[1], ch[2]) IN
                  /\ inst' = r.inst
                  /\ connOpen' = r.open
                  /\ scope' = "out"
                  /\ call' = CallObs(op, market, useCache, now, o, i1.client,
                                     "exception", r.exc, Propagated(o.exc, r.exc))
    /\ prev' = LastFetchAllPairs
    /\ UNCHANGED <<registry, regLog, created, fx, reply, mcall,
                   info, callers, nWrites>>

\* inst.fetch_all_pairs(market, use_cache)
FetchAllPairs(market, useCache, outsSet) ==
    /\ inst # NoInst
    /\ \E outs \in outsSet :
       \E body \in PairBodies(inst.cls, market) :
         Perform("fetch_all_pairs", market, useCache,
                 fetch_all_pairs(inst, market, useCache, outs, body, now))

(***************************************************************************)
(* Direct use of the retrying fetcher.                                     *)
(***************************************************************************)
FxObs(method, outs, f) ==
    [method |-> method, outs |-> outs, attempts |-> f.attempts,
     waits |-> f.waits, exc |-> f.exc]

Fetch(method, outs) ==
    LET f == FetchWithRetry(outs)
        opened == inst.client = 0
    IN
    /\ inst # NoInst
    /\ nCalls < MaxFetches
    /\ nCalls' = nCalls + 1
    /\ opened => connCount < MaxConns
    /\ now + SumSeq(f.waits) <= MaxTime
    /\ now' = now + SumSeq(f.waits)
    /\ inst' = [inst EXCEPT !.client = IF opened THEN connCount + 1 ELSE @]
    /\ connOpen' = IF opened THEN connOpen \cup {connCount + 1} ELSE connOpen
    /\ connCount' = IF opened THEN connCount + 1 ELSE connCount
    /\ fx' = FxObs(method, outs, f)
    /\ UNCHANGED <<registry, regLog, created, scope, call, prev, reply, mcall,
                   info, callers, nWrites>>

\* BaseExchange._fetch_with_retry(url)
FetchGet == \E outs \in AttemptSeqs : Fetch("GET", outs)

\* HyperliquidExchange._fetch_with_retry_post(url, payload)
FetchPost ==
    /\ inst.cls = "HyperliquidExchange"
    /\ \E outs \in AttemptSeqs : Fetch("POST", outs)

(***************************************************************************)
(* Direct calls of the adapter methods.                                    *)
(***************************************************************************)
\* the arguments the data methods are called with
MethodRequests ==
    {Req("BTCUSDT", iv, m, 1000, None, None, "", <<>>) :
        iv \in {"1h", "60", "7m"}, m \in {"spot", "futures", "margin"}}
    \cup {Req("BTCUSDT", "1h", m, l, None, None, "", <<>>) :
             m \in {"spot", "futures"}, l \in {1001, 1500, 1501}}
    \cup {Req("BTCUSDT", iv, "futures", l, None, None, "", <<>>) :
             iv \in {"1h", "60"}, l \in {0, 1, 200, 201, 500, 501}}
    \cup {Req("BTCUSDT", "60", "futures", 1001, None, None, "", <<>>)}
    \cup {Req("BTCUSDT", "1h", "futures", 100, st, en, "", <<>>) :
             st \in {None, 0, 5}, en \in {None, 0, 9}}
    \cup {Req("BTCUSDT", "1h", "spot", 100, None, None, "", <<>>)}

\* the vendor answers a direct call is exposed to: those of DataBodies and,
\* for klines, rows listed in other orders
MethodBodies(cls, method) ==
    DataBodies(cls, method)
      \cup (IF cls = "BybitExchange" THEN {ErrorBody("")} ELSE {})
      \cup (IF method # "fetch_market_data" THEN {}
            ELSE {DataBody("rows", <<Asset("BTC", 101540, 102983),
                                     Asset("ETH", 101540, 0), Asset("SOL", 5, None)>>),
                  DataBody("rows", <<Asset("BTC", None, 102983),
                                     Asset("ETH", 102983, 101540)>>)})
      \cup (IF method # "fetch_klines" THEN {}
            ELSE IF cls = "BybitExchange"
            THEN {DataBody("rows", <<<<"1", "0">>, <<"2", "0">>, <<"3", "0">>>>)}
            ELSE {DataBody("rows", <<20, 10, 30>>)})

\* The attempt outcomes and the vendor response of a call: the outcomes
\* are read only by a call that reaches the fetch, the response only when
\* the fetch succeeds.  A fetch succeeds at once, succeeds at its second
\* attempt with an empty response, or fails at every attempt.
MethodInputs(reaches, bodies, blank) ==
    IF reaches
    THEN ({OkOuts} \X bodies)
           \cup {<<OutSeq(k, "transport"), blank>> : k \in {1, StopAttempts}}
    ELSE {<<OkOuts, blank>>}

\* the call whose result the caller takes, as the next call finds it
LastKlines ==
    IF mcall.method = "fetch_klines" /\ mcall.exc = NoExc
    THEN [req |-> mcall.req, body |-> mcall.body, ret |-> mcall.ret]
    ELSE NoLast

\* the caller takes the result of the call
TakeResult ==
    /\ mcall.method # ""
    /\ mcall' = [NoMethodCall EXCEPT !.last = LastKlines]
    /\ UNCHANGED <<registry, regLog, created, inst, scope, connOpen, connCount, now,
                   call, prev, nCalls, fx, reply,
                   info, callers, nWrites>>

\* the caller holds an instance and makes one call at a time
CanCall ==
    /\ inst # NoInst
    /\ mcall.method = ""
    /\ nCalls < MaxMethodCalls

\* The state change of a method called on inst with result r: the lazily
\* created client, the clock and the cache.
Called(method, req, tag, useCache, in, r, cache) ==
    LET opened == r.attempts > 0 /\ inst.client = 0 IN
    /\ opened => connCount < MaxConns
    /\ now + SumSeq(r.waits) <= MaxTime
    /\ now' = now + SumSeq(r.waits)
    /\ nCalls' = nCalls + 1
    /\ inst' = [inst EXCEPT !.cache = cache,
                            !.client = IF opened THEN connCount + 1 ELSE @]
    /\ connOpen' = IF opened THEN connOpen \cup {connCount + 1} ELSE connOpen
    /\ connCount' = IF opened THEN connCount + 1 ELSE connCount
    /\ mcall' = MethodObs(method, req, tag, useCache, now, in, r, inst, connCount,
                          mcall.last)
    /\ UNCHANGED <<registry, regLog, created, scope, call, prev, fx, reply,
                   info, callers, nWrites>>

\* inst.<method>(...) for a data method
CallData(method, req) ==
    /\ CanCall
    /\ \E in \in MethodInputs(
                  CallMethod(inst.cls, method, req, OkOuts, NoBody).attempts > 0,
                  MethodBodies(inst.cls, method), NoBody) :
       \E r \in {CallMethod(inst.cls, method, req, in[1], in[2])} :
         Called(method, req, "", FALSE, in, r, inst.cache)

FetchKlines == \E req \in MethodRequests : CallData("fetch_klines", req)

FetchFundingRateHistory ==
    \E req \in MethodRequests : CallData("fetch_funding_rate_history", req)

FetchOpenInterest == \E req \in MethodRequests : CallData("fetch_open_interest", req)

FetchOpenInterestHistory ==
    \E req \in MethodRequests : CallData("fetch_open_interest_history", req)

\* the symbol filters fetch_market_data is called with
MarketDataRequests ==
    {Req(symbol, "", "futures", 0, None, None, "", <<>>) : symbol \in {"", "BTC", "ETH"}}

FetchMarketData == \E req \in MarketDataRequests : CallData("fetch_market_data", req)

\* the exchange tags fetch_symbols_from_exchange is called with
ExchangeTags ==
    {"binance-spot", "binance-futures", "bybit-spot", "bybit-futures",
     "hyperliquid-spot", "hyperliquid-futures", "kraken-spot"}

\* inst.fetch_symbols_from_exchange(url, exchange), url being the
\* instance's spot_url or futures_url
FetchSymbols(urlMarket, exchange) ==
    /\ CanCall
    /\ \E in \in MethodInputs(
                  fetch_symbols_from_exchange(inst.cls, exchange, OkOuts,
                                              Body(<<>>, <<>>, FALSE)).attempts > 0,
                  PairBodies(inst.cls, urlMarket), Body(<<>>, <<>>, FALSE)) :
       \E r \in {fetch_symbols_from_exchange(inst.cls, exchange, in[1], in[2])} :
         Called("fetch_symbols_from_exchange", [NoReq EXCEPT !.market = urlMarket],
                exchange, FALSE, in, r, inst.cache)

\* inst.fetch_all_pairs(market, use_cache), observed with the vendor response
ListPairs(market, useCache) ==
    /\ CanCall
    /\ \E in \in MethodInputs(
                  fetch_all_pairs(inst, market, useCache, OkOuts,
                                  Body(<<>>, <<>>, FALSE), now).attempts > 0,
                  PairBodies(inst.cls, market), Body(<<>>, <<>>, FALSE)) :
       \E o \in {fetch_all_pairs(inst, market, useCache, in[1], in[2], now)} :
         Called("fetch_all_pairs", [NoReq EXCEPT !.market = market],
                ExchangeTag(inst.cls, market), useCache, in,
                Result(o.exc, o.ret, o.fetches, o.attempts, o.waits), o.cache)

(***************************************************************************)
(* Concurrent callers of fetch_all_pairs(market, use_cache=True) on one    *)
(* instance.  A caller advances through the statements of the method: the  *)
(* validation and the cache check, the lookup of the client by the first   *)
(* attempt, process_<market>() with its fetch, and the cache write.  Each  *)
(* of these is one step; other callers run between them.                   *)
(***************************************************************************)
\* mutant: the write keeps an entry that is already there
StoreEntry_keepsFirst(cache, market, ts, result) ==
    IF market \in DOMAIN cache THEN cache
    ELSE (market :> CacheEntry(ts, result)) @@ cache

\* self._cache[market_type] = (time.time(), result)
StoreEntry(cache, market, ts, result) == (market :> CacheEntry(ts, result)) @@ cache

\* the unchanged part of the state in a step of a concurrent caller
CallerFrame == UNCHANGED <<registry, regLog, created, scope, call, prev, fx, reply,
                           mcall, info>>

\* the call starts: market validation and cache check
Begin(c, market) ==
    /\ inst # NoInst
    /\ callers[c].pc = "idle"
    /\ nCalls < MaxCalls
    /\ nCalls' = nCalls + 1
    /\ \E o \in {fetch_all_pairs(inst, market, TRUE, OkOuts, Body(<<>>, <<>>, FALSE), now)} :
         callers' = [callers EXCEPT ![c] =
                       IF o.fetches = 0
                       THEN CallerAt("done", market, now, o.hit, 0, NoPairs, o.exc, o.ret, 0, 0)
                       ELSE CallerAt("missed", market, now, FALSE, 0, NoPairs, NoExc,
                                     NoPairs, 0, 0)]
    /\ UNCHANGED <<inst, connOpen, connCount, now, nWrites>>
    /\ CallerFrame

\* the client property, read by the first attempt: `if self._client is None`
ReadClient(c) ==
    /\ callers[c].pc = "missed"
    /\ callers' = [callers EXCEPT ![c].pc = IF inst.client = 0 THEN "creating"
                                            ELSE "fetching"]
    /\ UNCHANGED <<inst, connOpen, connCount, now, nCalls, nWrites>>
    /\ CallerFrame

\* self._client = httpx.Client(timeout=30.0): a client created meanwhile by
\* another caller is replaced and stays open
CreateClient(c) ==
    /\ callers[c].pc = "creating"
    /\ connCount < MaxConns
    /\ connCount' = connCount + 1
    /\ connOpen' = connOpen \cup {connCount + 1}
    /\ inst' = [inst EXCEPT !.client = connCount + 1]
    /\ callers' = [callers EXCEPT ![c].pc = "fetching"]
    /\ UNCHANGED <<now, nCalls, nWrites>>
    /\ CallerFrame

\* process_<market>(): the fetch with its retries and the parsing
Process(c) ==
    /\ callers[c].pc = "fetching"
    /\ \E in \in MethodInputs(TRUE, PairBodies(inst.cls, callers[c].market),
                               Body(<<>>, <<>>, FALSE)) :
       \E o \in {fetch_all_pairs(inst, callers[c].market, FALSE, in[1], in[2], now)} :
         /\ now + SumSeq(o.waits) <= MaxTime
         /\ now' = now + SumSeq(o.waits)
         /\ callers' = [callers EXCEPT ![c] =
                          [@ EXCEPT !.pc = IF o.exc = NoExc THEN "fetched" ELSE "done",
                                    !.fetches = o.fetches,
                                    !.result = o.ret,
                                    !.exc = o.exc]]
    /\ UNCHANGED <<inst, connOpen, connCount, nCalls, nWrites>>
    /\ CallerFrame

\* the cache write and the return of the result
Store(c) ==
    /\ callers[c].pc = "fetched"
    /\ inst' = [inst EXCEPT !.cache = StoreEntry(@, callers[c].market, now,
                                                 callers[c].result)]
    /\ nWrites' = nWrites + 1
    /\ callers' = [callers EXCEPT ![c] =
                     [@ EXCEPT !.pc = "done", !.ret = callers[c].result, !.wrote = nWrites + 1,
                               !.ts = now]]
    /\ UNCHANGED <<connOpen, connCount, now, nCalls>>
    /\ CallerFrame

\* the caller is ready for its next call
Finish(c) ==
    /\ callers[c].pc = "done"
    /\ nCalls < MaxCalls
    /\ callers' = [callers EXCEPT ![c] = Idle]
    /\ UNCHANGED <<inst, connOpen, connCount, now, nCalls, nWrites>>
    /\ CallerFrame

(***************************************************************************)
(* Tool actions.                                                           *)
(***************************************************************************)
\* the arguments the tools are called with
ToolExchanges == {NameBinance, NameBINANCE, NameBybit, NameHyperliquid, NameOkx}

ToolRequests ==
    { Req("BTCUSDT", "1h", "spot", 100, None, None, "active", <<"spot", "futures">>),
      Req("BTCUSDT", "60", "futures", 100, None, None, "all", <<"spot", "spot">>),
      Req("BTC", "1h", "margin", 100, 5, None, "inactive", <<"futures", "margin">>),
      Req("", "", "spot", 1200, None, None, "active", <<"spot", "futures">>) }

\* a public tool is invoked and returns (or raises); the host serves one
\* invocation at a time
Invoke(tool, exchange, req) ==
    /\ nCalls < MaxTools
    /\ reply = NoReply
    /\ \E in \in ToolInputs(tool, exchange, req, registry, now) :
       \E w \in {Attempted(tool, exchange, req, in, registry, now)} :
       \E ch \in CloseChoices([client |-> IF w.res.attempts > 0 THEN 1 ELSE 0]) :
       \E x \in {Left(w, ch, connCount + 1, connOpen)} :
       \E post \in (IF x.exc = NoExc /\ ~w.denied THEN PostKinds(tool) ELSE {"none"}) :
         /\ w.res.attempts > 0 => connCount < MaxConns
         /\ now + SumSeq(w.res.waits) <= MaxTime
         /\ now' = now + SumSeq(w.res.waits)
         /\ connCount' = IF w.res.attempts > 0 THEN connCount + 1 ELSE connCount
         /\ connOpen' = x.open
         /\ reply' = Concluded(tool, exchange, req, in, w, x, post)
    /\ nCalls' = nCalls + 1
    /\ UNCHANGED <<registry, regLog, created, inst, scope, call, prev, fx, mcall,
                   info, callers, nWrites>>

\* the host takes the payload of the invocation
Deliver ==
    /\ reply # NoReply
    /\ reply' = NoReply
    /\ UNCHANGED <<registry, regLog, created, inst, scope, connOpen, connCount, now,
                   call, prev, nCalls, fx, mcall,
                   info, callers, nWrites>>

get_trading_pairs ==
    \E exchange \in ToolExchanges, req \in ToolRequests :
      Invoke("get_trading_pairs", exchange, req)

compare_exchange_pairs ==
    \E exchange \in ToolExchanges, req \in ToolRequests :
      Invoke("compare_exchange_pairs", exchange, req)

get_market_data ==
    \E exchange \in ToolExchanges, req \in ToolRequests :
      Invoke("get_market_data", exchange, req)

get_klines ==
    \E exchange \in ToolExchanges, req \in ToolRequests :
      Invoke("get_klines", exchange, req)

get_funding_rate_history ==
    \E exchange \in ToolExchanges, req \in ToolRequests :
      Invoke("get_funding_rate_history", exchange, req)

get_funding_rate_info ==
    \E exchange \in ToolExchanges, req \in ToolRequests :
      Invoke("get_funding_rate_info", exchange, req)

get_open_interest ==
    \E exchange \in ToolExchanges, req \in ToolRequests :
      Invoke("get_open_interest", exchange, req)

get_open_interest_history ==
    \E exchange \in ToolExchanges, req \in ToolRequests :
      Invoke("get_open_interest_history", exchange, req)

export_klines ==
    \E exchange \in ToolExchanges, req \in ToolRequests :
      Invoke("export_klines", exchange, req)

export_funding_rate ==
    \E exchange \in ToolExchanges, req \in ToolRequests :
      Invoke("export_funding_rate", exchange, req)

export_open_interest ==
    \E exchange \in ToolExchanges, req \in ToolRequests :
      Invoke("export_open_interest", exchange, req)

export_trading_pairs ==
    \E exchange \in ToolExchanges, req \in ToolRequests :
      Invoke("export_trading_pairs", exchange, req)

calculate_indicator ==
    \E exchange \in ToolExchanges, req \in ToolRequests :
      Invoke("calculate_indicator", exchange, req)

calculate_multiple_indicators ==
    \E exchange \in ToolExchanges, req \in ToolRequests :
      Invoke("calculate_multiple_indicators", exchange, req)

export_indicator_data ==
    \E exchange \in ToolExchanges, req \in ToolRequests :
      Invoke("export_indicator_data", exchange, req)

(***************************************************************************)
(* Specifications.                                                         *)
(***************************************************************************)
NextRegistry ==
    \/ \E name \in ExchangeNames, cls \in AdapterClasses : Register(name, cls)
    \/ \E name \in ExchangeNames : Create(name)
    \/ Discard

\* the names the caller creates adapters with
AdapterNames == {NameBinance, NameBybitCap, NameHyperliquid}

\* one caller using an instance over time: the pair cache
NextCache ==
    \/ \E name \in AdapterNames : Create(name)
    \/ \E d \in TickSteps : Tick(d)
    \/ \E market \in MarketInputs, useCache \in BOOLEAN :
         FetchAllPairs(market, useCache, CacheOuts)

ScopeMarkets == {"spot", "margin"}

\* one caller using an instance inside and outside `with`: the connection
NextScope ==
    \/ \E name \in AdapterNames : Create(name)
    \/ EnterScope
    \/ \E path \in {"normal", "early_return"} : ExitScope(path)
    \/ Close
    \/ Discard
    \/ \E market \in ScopeMarkets : FetchAllPairs(market, TRUE, AdapterOuts)

NextFetch ==
    \/ \E name \in AdapterNames : Create(name)
    \/ FetchGet
    \/ FetchPost
    \/ Close

NextTools ==
    \/ get_trading_pairs
    \/ compare_exchange_pairs
    \/ get_market_data
    \/ get_klines
    \/ get_funding_rate_history
    \/ get_funding_rate_info
    \/ get_open_interest
    \/ get_open_interest_history
    \/ export_klines
    \/ export_funding_rate
    \/ export_open_interest
    \/ export_trading_pairs
    \/ calculate_indicator
    \/ calculate_multiple_indicators
    \/ export_indicator_data
    \/ Deliver

\* one caller calling the data methods of an instance
NextData ==
    \/ \E name \in AdapterNames : Create(name)
    \/ FetchKlines
    \/ FetchFundingRateHistory
    \/ FetchOpenInterest
    \/ FetchOpenInterestHistory
    \/ FetchMarketData
    \/ \E market \in {"spot"} : ListPairs(market, TRUE)
    \/ TakeResult

\* one caller querying the registry and listing the symbols and the pairs
\* of an instance
NextPairs ==
    \/ \E name \in AdapterNames : Create(name)
    \/ ListExchanges
    \/ \E name \in {NameBINANCE, NameOkx} : GetExchangeInfo(name)
    \/ \E urlMarket \in {"spot", "futures"}, exchange \in ExchangeTags :
         FetchSymbols(urlMarket, exchange)
    \/ \E market \in MarketInputs, useCache \in BOOLEAN : ListPairs(market, useCache)
    \/ TakeResult

\* the TTLs instances are constructed with
CacheTtls == {0, 30}

\* one caller using an instance over time: the pair cache, the data
\* methods and close()
NextInstance ==
    \/ \E name \in AdapterNames : Create(name)
    \/ \E cache_ttl \in CacheTtls : Construct("BinanceExchange", cache_ttl)
    \/ \E d \in TickSteps : Tick(d)
    \/ \E market \in MarketInputs, useCache \in BOOLEAN : ListPairs(market, useCache)
    \/ \E req \in {Req("BTCUSDT", "1h", m, 100, None, None, "", <<>>) :
                     m \in {"futures", "margin"}} :
         CallData("fetch_klines", req)
    \* close() is a call like the others: made once the result is taken
    \/ mcall.method = "" /\ Close
    \/ TakeResult

\* the arguments fetch_klines is called with over the life of an instance
LifecycleRequests ==
    {Req("BTCUSDT", "1h", m, 100, None, None, "", <<>>) : m \in {"futures", "margin"}}

\* one caller over the life of an instance: creation, operations that
\* reach the network or stop before it, and close()
NextLifecycle ==
    \/ \E name \in AdapterNames : Create(name)
    \/ Construct("BybitExchange", DefaultCacheTtl)
    \/ \E market \in {"spot", "margin"} : ListPairs(market, TRUE)
    \/ \E req \in LifecycleRequests : CallData("fetch_klines", req)
    \/ mcall.method = "" /\ Close
    \/ TakeResult

\* two callers sharing one instance
NextShared ==
    \/ Create(NameBinance)
    \/ \E d \in TickSteps : Tick(d)
    \/ \E c \in Callers, market \in {"spot", "margin"} : Begin(c, market)
    \/ \E c \in Callers : ReadClient(c)
    \/ \E c \in Callers : CreateClient(c)
    \/ \E c \in Callers : Process(c)
    \/ \E c \in Callers : Store(c)
    \/ \E c \in Callers : Finish(c)

SpecRegistry == Init /\ [][NextRegistry]_vars

SpecCache == Init /\ [][NextCache]_vars

SpecScope == Init /\ [][NextScope]_vars

SpecFetch == Init /\ [][NextFetch]_vars

SpecTools == Init /\ [][NextTools]_vars

SpecData == Init /\ [][NextData]_vars

SpecPairs == Init /\ [][NextPairs]_vars

SpecInstance == Init /\ [][NextInstance]_vars

SpecLifecycle == Init /\ [][NextLifecycle]_vars

SpecShared == Init /\ [][NextShared]_vars

(***************************************************************************)
(* Properties.                                                             *)
(***************************************************************************)
FetchedAllPairs == call.op = "fetch_all_pairs"

\* C1: for every adapter, fetch_all_pairs with a market type outside
\* get_supported_markets() raises ValueError and makes no network call,
\* whatever use_cache is and whatever the cache holds.
C1_UnsupportedMarketRejected ==
    (FetchedAllPairs /\ call.market \notin SeqToSet(get_supported_markets(inst.cls)))
        => /\ call.exc.type = "ValueError"
           /\ call.fetches = 0
           /\ call.attempts = 0
           /\ ~call.hit

C1_Witness ==
    /\ FetchedAllPairs
    /\ call.market = "margin"
    /\ call.useCache
    /\ inst.cls = "HyperliquidExchange"
    /\ DOMAIN inst.cache # {}
    /\ call.exc.type = "ValueError"

\* C2: of two sequential fetch_all_pairs("spot") calls with the cache enabled,
\* the second, when made within the TTL window of the entry, makes no network
\* call and returns the result of the first (one network call in total when
\* the first was live); a call made once the TTL has elapsed makes a network
\* call again.
C2_SequentialCallsShareOneFetch ==
    ( /\ FetchedAllPairs /\ call.market = "spot" /\ call.useCache
      /\ prev.market = "spot" /\ prev.useCache /\ prev.ok )
        => IF call.t0 - prev.ts < inst.ttl
           THEN /\ call.fetches = 0
                /\ call.attempts = 0
                /\ call.exc = NoExc
                /\ call.ret = prev.ret
                /\ prev.fetches = 1 => prev.fetches + call.fetches = 1
           ELSE call.fetches = 1

\* the third call of the scenario: a live call, a hit, then a call past the TTL
C2_Witness ==
    /\ nCalls = 3
    /\ FetchedAllPairs /\ call.market = "spot" /\ call.useCache
    /\ prev.market = "spot" /\ prev.useCache /\ prev.ok /\ prev.fetches = 0
    /\ call.t0 - prev.ts >= inst.ttl
    /\ call.fetches = 1

\* the register calls made so far, the module-level ones included
RegistrationsUpTo(n) == InitialRegistry \o SubSeq(regLog, 1, n)

MatchingRegistrations(log, name) ==
    {k \in DOMAIN log : Lower(log[k].name) = Lower(name)}

SetMax(S) == CHOOSE x \in S : \A y \in S : y <= x

\* C3: create(name) instantiates the class most recently registered under a
\* name equal to `name` ignoring case; without such a registration it raises
\* ValueError and the message lists the registered names.
C3_CreateResolvesLastRegistration ==
    created.name # <<>> =>
        LET log == RegistrationsUpTo(created.at)
            m == MatchingRegistrations(log, created.name)
        IN IF m # {}
           THEN /\ created.exc = NoExc
                /\ created.cls = log[SetMax(m)].cls
           ELSE /\ created.exc.type = "ValueError"
                /\ created.cls = ""
                /\ SeqToSet(created.exc.detail) = {Lower(log[k].name) : k \in DOMAIN log}

\* an upper-case registration has replaced the adapter of "binance"
C3_Witness ==
    /\ created.name = NameBinance
    /\ created.at = 2
    /\ regLog[1].name = NameBINANCE
    /\ regLog[2].name = NameBINANCE
    /\ regLog[1].cls # regLog[2].cls
    /\ created.cls = regLog[2].cls
    /\ created.cls # "BinanceExchange"

Fetched == fx.method # ""

\* the attempts of the last fetch that were made and failed
FailedAttempts == {n \in 1..fx.attempts : fx.outs[n] # "ok"}

\* C5: a fetch (GET or POST) makes at most 3 attempts; it returns at the
\* first attempt that succeeds, making no further attempt, and when the
\* first three attempts all fail it stops there and raises.
C5_AtMostThreeAttempts ==
    Fetched =>
        /\ fx.attempts >= 1
        /\ fx.attempts <= 3
        /\ Len(fx.waits) = fx.attempts - 1
        /\ \A n \in 1..3 :
             (fx.outs[n] = "ok" /\ \A k \in 1..(n - 1) : fx.outs[k] # "ok")
                 => (fx.attempts = n /\ fx.exc = NoExc)
        /\ (\A n \in 1..3 : fx.outs[n] # "ok")
                 => (fx.attempts = 3 /\ fx.exc # NoExc)

C5_Witness ==
    /\ fx.method = "POST"
    /\ fx.attempts = 3
    /\ fx.exc # NoExc
    /\ fx.outs[2] = "status"

\* C6 as claimed: the wait after the first failed attempt is 2 and the wait
\* after the second failed attempt is 4.
C6_WaitsDouble ==
    Fetched =>
        /\ Len(fx.waits) >= 1 => fx.waits[1] = 2
        /\ Len(fx.waits) >= 2 => fx.waits[2] = 4

\* the waits of wait_exponential(multiplier=1, min=2, max=10) by attempt
BackoffSchedule == <<2, 2, 4, 8, 10, 10>>

\* C6: the wait after the n-th failed attempt is 2^(n-1) raised to the
\* minimum 2 and capped at 10: 2 after the first failed attempt and 2 again
\* after the second (the schedule 2, 2, 4, 8, 10).
C6_WaitsFollowSchedule ==
    Fetched => \A n \in DOMAIN fx.waits : fx.waits[n] = BackoffSchedule[n]

C6_Witness ==
    /\ Fetched
    /\ fx.attempts = 3
    /\ fx.waits = <<2, 2>>
    /\ fx.outs[3] = "ok"

\* C7 as claimed: a 2xx response whose body is not JSON is not retried: one
\* attempt, and the parse error is raised; only transport failures and
\* non-2xx statuses lead to another attempt.
C7_ParseErrorNotRetried ==
    Fetched =>
        /\ fx.outs[1] = "badjson" =>
               (fx.attempts = 1 /\ fx.exc.type = "JSONDecodeError")
        /\ \A n \in 1..(fx.attempts - 1) : fx.outs[n] \in {"transport", "status"}

Replied == reply.tool # ""

\* C8 as claimed: when every attempt of the fetch of a tool fails with a
\* transport or status error, the exception the tool catches is that error
\* itself and the payload is the "API request failed" / HTTPError one.
C8_TransportErrorReported ==
    ( /\ Replied
      /\ reply.fetches = 1
      /\ \A n \in 1..StopAttempts : reply.outs[n] \in {"transport", "status"}
      /\ reply.closeExc = NoExc
      /\ \E k \in DOMAIN Clauses(reply.tool) : Clauses(reply.tool)[k].catch = "HTTPError" )
        => /\ reply.exc.type \in {"ConnectError", "HTTPStatusError"}
           /\ reply.payload.error = "API request failed"
           /\ reply.payload.error_type = "HTTPError"

\* C9: every run of a public tool returns a payload and raises nothing,
\* whatever the adapter work does (unknown exchange, invalid input, missing
\* capability, failed fetch, vendor error, any other exception, an error
\* while closing the connection); the payload of a failed run carries a
\* category, a message and request parameters.
C9_ToolsAlwaysReturnPayload ==
    Replied =>
        /\ reply.raised = NoExc
        /\ reply.payload # NoPayload
        /\ (reply.exc # NoExc \/ reply.denied) =>
               /\ reply.payload.error_type # ""
               /\ reply.payload.error # "" \/ reply.payload.status = "error"
               /\ reply.payload.message # ""
               /\ "exchange" \in reply.payload.params
               /\ reply.payload.count < 0
        /\ (reply.exc = NoExc /\ ~reply.denied /\ reply.post # "export_error") =>
               /\ reply.payload.error = ""
               /\ reply.payload.count >= 0

\* the fetch succeeded and closing the connection raised
C9_Witness ==
    /\ reply.tool = "get_klines"
    /\ reply.attempts = 1
    /\ reply.closeExc # NoExc
    /\ reply.exc = reply.closeExc
    /\ reply.payload.error = "Unexpected error"
    /\ reply.raised = NoExc

\* C10 as claimed: a tool asked for a capability the adapter does not
\* provide reports "Feature not supported", decides so by probing, without
\* calling the adapter method, and makes no network call.
C10_UnsupportedCapabilityProbed ==
    ( /\ Replied
      /\ reply.cls # ""
      /\ MethodOf(reply.tool) # ""
      /\ ~Implements(reply.cls, MethodOf(reply.tool)) )
        => /\ reply.payload.error = "Feature not supported"
           /\ reply.denied
           /\ reply.called = ""
           /\ reply.attempts = 0

\* the error a fetch raises when every attempt fails in transport
TransportFailure == FetchWithRetry(OutSeq(StopAttempts, "transport")).exc

\* C11 as claimed: a Bybit fetch that succeeds at the HTTP level and whose
\* envelope carries a non-zero retCode ends in an error that carries the
\* vendor's retMsg and that differs from the error of a transport failure,
\* both as the exception the adapter raises and as the error category of
\* the payload the tool returns.
C11_VendorErrorDistinguished ==
    ( /\ Replied
      /\ reply.cls = "BybitExchange"
      /\ reply.fetches = 1
      /\ FetchWithRetry(reply.outs).exc = NoExc
      /\ reply.body.kind = "vendor_error"
      /\ reply.closeExc = NoExc )
        => /\ reply.exc.text = "Bybit API error"
           /\ reply.exc.detail = <<reply.body.retMsg>>
           /\ reply.exc.type # TransportFailure.type
           /\ reply.payload.error # HandlerPayload(reply.tool, TransportFailure).error

MethodCalled(cls, method) == mcall.method = method /\ mcall.cls = cls

\* the call raised the input-validation error and did not touch the network
RejectedOffline ==
    /\ mcall.exc.type = "ValueError"
    /\ mcall.fetches = 0
    /\ mcall.attempts = 0

\* the call passed its validations: it went on to the fetch
Accepted == mcall.fetches = 1 /\ mcall.exc.type # "ValueError"

\* C12: Binance fetch_klines with a valid interval rejects a limit above
\* the cap of the market (1000 for spot, 1500 for futures) with ValueError
\* and without a network call, and accepts a limit up to the cap: spot 1000
\* is accepted, spot 1001 and spot 1500 raise, futures 1500 is accepted,
\* futures 1501 raises.
C12_BinanceKlinesLimitCap ==
    ( /\ MethodCalled("BinanceExchange", "fetch_klines")
      /\ mcall.req.interval \in BinanceKlineIntervals
      /\ mcall.req.market \in {"spot", "futures"} )
        => /\ (mcall.req.market = "spot" /\ mcall.req.limit \in {1001, 1500, 1501})
                 => RejectedOffline
           /\ (mcall.req.market = "spot" /\ mcall.req.limit <= 1000) => Accepted
           /\ (mcall.req.market = "futures" /\ mcall.req.limit = 1501) => RejectedOffline
           /\ (mcall.req.market = "futures" /\ mcall.req.limit <= 1500) => Accepted
           /\ RejectedOffline \/ Accepted

\* a second call, on an instance that holds a client, is rejected for spot
\* 1001 after futures 1500 was accepted
C12_Witness ==
    /\ MethodCalled("BinanceExchange", "fetch_klines")
    /\ mcall.req.market = "spot"
    /\ mcall.req.limit = 1001
    /\ RejectedOffline
    /\ mcall.exc.text = "Limit cannot exceed"
    /\ mcall.clientBefore # 0
    /\ mcall.last.req.limit = 1500
    /\ mcall.last.req.market = "futures"

KlinesReturned(cls) == MethodCalled(cls, "fetch_klines") /\ mcall.exc = NoExc

NewestFirst == <<<<"3", "0">>, <<"2", "0">>, <<"1", "0">>>>

Chronological(s) == \A k \in 1..(Len(s) - 1) : s[k] <= s[k + 1]

\* the open times of the vendor's rows, in the order the vendor lists them
VendorTimes ==
    IF mcall.cls = "BybitExchange"
    THEN [k \in DOMAIN mcall.body.rows |-> ParseInt(mcall.body.rows[k])]
    ELSE mcall.body.rows

\* C14 as claimed: the sequence fetch_klines returns is chronological
\* whatever the order of the vendor's rows.
C14_KlinesAlwaysChronological ==
    (KlinesReturned("BinanceExchange") \/ KlinesReturned("BybitExchange"))
        => Chronological(mcall.ret)

\* C14: fetch_klines does not sort.  Binance returns the rows in the
\* vendor's order and Bybit in the reverse of the vendor's order, so the
\* result is chronological exactly when the Binance response is oldest
\* first, respectively the Bybit response newest first (the orders the two
\* vendors use).
C14_KlinesOrderFollowsVendor ==
    /\ KlinesReturned("BinanceExchange") =>
          /\ mcall.ret = VendorTimes
          /\ Chronological(mcall.ret) <=> Chronological(VendorTimes)
    /\ KlinesReturned("BybitExchange") =>
          /\ mcall.ret = Reverse(VendorTimes)
          /\ Chronological(mcall.ret) <=> Chronological(Reverse(VendorTimes))

\* a Bybit response listed oldest first comes back newest first
C14_Witness ==
    /\ KlinesReturned("BybitExchange")
    /\ VendorTimes = <<10, 20, 30>>
    /\ mcall.ret = <<30, 20, 10>>
    /\ ~Chronological(mcall.ret)

\* a live fetch_all_pairs(market) of an adapter returned
PairsListed(cls, market) ==
    /\ MethodCalled(cls, "fetch_all_pairs")
    /\ mcall.req.market = market
    /\ mcall.fetches = 1
    /\ mcall.exc = NoExc

\* the positions of list at which the vendor item it appears
Entries(list, it) ==
    {k \in DOMAIN list : list[k].pair = <<it.sym>> /\ list[k].symbol = it.base}

\* C15: Binance fetch_all_pairs("spot") puts every USDT-quoted symbol of
\* the exchange-info response in exactly one list: in `active` when its
\* status is TRADING, otherwise in `inactive`; the entries of `active` have
\* is_active true, those of `inactive` false, all have exchange
\* "binance-spot", and symbols of another quote asset are in neither list.
C15_BinanceSpotPartition ==
    PairsListed("BinanceExchange", "spot") =>
        LET items == mcall.body.items
            act == mcall.ret.active
            ina == mcall.ret.inactive
        IN /\ \A n \in DOMAIN items :
                LET a == Cardinality(Entries(act, items[n]))
                    b == Cardinality(Entries(ina, items[n]))
                IN IF items[n].quote # "USDT" THEN a = 0 /\ b = 0
                   ELSE IF items[n].status = "TRADING" THEN a = 1 /\ b = 0
                   ELSE a = 0 /\ b = 1
           /\ Len(act) + Len(ina) =
                 Cardinality({n \in DOMAIN items : items[n].quote = "USDT"})
           /\ \A k \in DOMAIN act :
                 act[k].is_active /\ act[k].exchange = "binance-spot"
           /\ \A k \in DOMAIN ina :
                 ~ina[k].is_active /\ ina[k].exchange = "binance-spot"

\* two TRADING symbols and one in BREAK, all quoted in USDT, and one symbol
\* quoted in BTC
C15_Witness ==
    /\ PairsListed("BinanceExchange", "spot")
    /\ Len(mcall.body.items) = 4
    /\ Len(mcall.ret.active) = 2
    /\ Len(mcall.ret.inactive) = 1
    /\ mcall.ret.inactive[1].symbol = "HIFI"

\* the messages that name the interval parameter
CitesInterval(message) ==
    message \in {"interval parameter is required for Bybit open interest",
                 "missing 1 required positional argument: 'interval'"}

\* a Bybit open-interest request made through a tool without an interval:
\* export_open_interest called without one, or get_open_interest, which
\* has none to pass
OpenInterestWithoutInterval ==
    /\ Replied
    /\ reply.cls = "BybitExchange"
    /\ \/ reply.tool = "export_open_interest" /\ reply.req.interval = ""
       \/ reply.tool = "get_open_interest"

\* C16 as claimed: a Bybit open-interest request made through a tool
\* without the interval returns an input-validation error payload that
\* cites the missing parameter, and no network call is made.
C16_MissingIntervalIsInvalidInput ==
    OpenInterestWithoutInterval =>
        /\ reply.payload.error_type = "ValueError"
        /\ reply.payload.error = "Invalid input" \/ reply.payload.status = "error"
        /\ CitesInterval(reply.payload.message)
        /\ reply.attempts = 0
        /\ reply.fetches = 0

\* the exchange tags an adapter knows
KnownTags(cls) == {ExchangeTag(cls, "spot"), ExchangeTag(cls, "futures")}

\* C17 as claimed: fetch_symbols_from_exchange called with a tag that is
\* not one of the adapter's raises ValueError before any network call.
C17_UnknownTagRejectedBeforeFetch ==
    ( /\ mcall.method = "fetch_symbols_from_exchange"
      /\ mcall.tag \notin KnownTags(mcall.cls) )
        => RejectedOffline

\* the call left the instance's client and the connections as they were
NoConnectionOpened ==
    /\ inst.client = mcall.clientBefore
    /\ connCount = mcall.connsBefore

\* whether the arguments of the last call break a rule of its method: the
\* interval or period set, the limit range, the supported markets
BreaksRule ==
    LET r == mcall.req IN
    CASE MethodCalled("BinanceExchange", "fetch_klines") ->
            r.interval \notin BinanceKlineIntervals \/ r.market \notin {"spot", "futures"}
      [] MethodCalled("BinanceExchange", "fetch_funding_rate_history") ->
            r.limit \notin 1..1000
      [] MethodCalled("BinanceExchange", "fetch_open_interest_history") ->
            r.interval \notin BinanceOiPeriods \/ r.limit \notin 1..500
      [] MethodCalled("BybitExchange", "fetch_klines") ->
            \/ r.interval \notin BybitKlineIntervals
            \/ r.limit \notin 1..1000
            \/ r.market \notin {"spot", "futures"}
      [] MethodCalled("BybitExchange", "fetch_funding_rate_history") ->
            r.limit \notin 1..200 \/ r.market # "futures"
      [] MethodCalled("BybitExchange", "fetch_open_interest") ->
            \/ r.interval \notin BybitOiIntervals
            \/ r.limit \notin 1..200
            \/ r.market # "futures"
      [] OTHER -> FALSE

\* C18: a Binance or Bybit call of fetch_klines, fetch_funding_rate_history,
\* fetch_open_interest (Bybit) or fetch_open_interest_history (Binance)
\* whose interval or period is outside the adapter's set, whose limit is
\* outside the range (Binance funding 1..1000, Binance open-interest
\* history 1..500, Bybit klines 1..1000, Bybit funding and open interest
\* 1..200) or whose market is not supported raises ValueError, makes no
\* network call and opens no connection.
C18_InvalidArgumentsRejectedOffline ==
    BreaksRule => (RejectedOffline /\ NoConnectionOpened)

\* only the market is wrong, on an instance that holds a client
C18_Witness ==
    /\ MethodCalled("BybitExchange", "fetch_open_interest")
    /\ mcall.req.interval = "1h"
    /\ mcall.req.limit = 100
    /\ mcall.req.market = "spot"
    /\ mcall.exc.text = "Invalid market type"
    /\ RejectedOffline
    /\ mcall.clientBefore # 0
    /\ inst.client = mcall.clientBefore

StartWithoutEnd == "If startTime is provided, endTime must also be provided"

\* C19: Bybit fetch_funding_rate_history with a start time and no end time
\* raises ValueError without a network call; with both, with an end time
\* only or with neither, the call passes this check (a call whose limit
\* and market are valid goes on to the fetch).
C19_StartNeedsEnd ==
    MethodCalled("BybitExchange", "fetch_funding_rate_history") =>
        LET r == mcall.req
            onlyStart == r.start_time # None /\ r.end_time = None
        IN /\ (onlyStart /\ r.limit \in 1..200)
                  => (RejectedOffline /\ mcall.exc.text = StartWithoutEnd)
           /\ onlyStart => RejectedOffline
           /\ ~onlyStart => mcall.exc.text # StartWithoutEnd
           /\ (~onlyStart /\ r.limit \in 1..200 /\ r.market = "futures") => Accepted

\* a start time of 0 without an end time
C19_Witness ==
    /\ MethodCalled("BybitExchange", "fetch_funding_rate_history")
    /\ mcall.req.start_time = 0
    /\ mcall.req.end_time = None
    /\ mcall.exc.text = StartWithoutEnd
    /\ RejectedOffline

\* C20: Hyperliquid fetch_klines raises NotImplementedError whatever its
\* arguments, with a message that names fetch_market_data; it makes no
\* network call, opens no connection and leaves the cache as it was.
C20_HyperliquidKlinesNotImplemented ==
    MethodCalled("HyperliquidExchange", "fetch_klines") =>
        /\ mcall.exc.type = "NotImplementedError"
        /\ "fetch_market_data" \in SeqToSet(mcall.exc.detail)
        /\ mcall.fetches = 0
        /\ mcall.attempts = 0
        /\ NoConnectionOpened
        /\ inst.cache = mcall.cacheBefore

\* on an instance whose cache holds the spot pairs
C20_Witness ==
    /\ MethodCalled("HyperliquidExchange", "fetch_klines")
    /\ mcall.exc.type = "NotImplementedError"
    /\ "spot" \in DOMAIN mcall.cacheBefore
    /\ mcall.clientBefore # 0
    /\ inst.cache = mcall.cacheBefore
    /\ mcall.req.interval = "1h"

\* C21: in Hyperliquid fetch_market_data the 24h price change of an asset
\* is (mark_price - prev_day_price) / prev_day_price * 100 rounded to two
\* decimals, -1.40 for mark 101540 and previous-day 102983, and it is 0 when
\* prev_day_price is zero or absent.  (price_change_24h is in hundredths.)
MarketDataReturned ==
    /\ mcall.method = "fetch_market_data"
    /\ mcall.cls = "HyperliquidExchange"
    /\ mcall.exc = NoExc

C21_PriceChange24h ==
    MarketDataReturned
        => \A k \in DOMAIN mcall.ret :
             LET e == mcall.ret[k]
                 m == CtxGet(e.mark_price)
                 p == e.prev_day_price
                 d == e.price_change_24h * p - 10000 * (m - p)
             IN /\ p \in {None, 0} => e.price_change_24h = 0
                /\ p > 0 => 2 * d <= p /\ 2 * (0 - d) <= p
                /\ m = 101540 /\ p = 102983 => e.price_change_24h = 0 - 140

C21_Witness ==
    /\ MarketDataReturned
    /\ mcall.req.symbol = ""
    /\ Len(mcall.ret) = 3
    /\ mcall.ret[1].mark_price = 101540 /\ mcall.ret[1].prev_day_price = 102983
    /\ mcall.ret[1].price_change_24h = 0 - 140
    /\ mcall.ret[2].prev_day_price = 0 /\ mcall.ret[2].price_change_24h = 0
    /\ mcall.ret[3].prev_day_price = None /\ mcall.ret[3].price_change_24h = 0

\* the last operation ended the instance's scope: __exit__ ran (at the end
\* of the block, by a return or by an exception) or close() was called, and
\* the client was released without an error
ScopeEnded ==
    /\ inst # NoInst
    /\ call.op = "close" \/ call.exitPath # ""
    /\ call.closeExc = NoExc

\* C22: when the scope of an instance ends, by __exit__ or by close(), its
\* connection is closed and it holds no cache entry any more, so that a
\* later fetch_all_pairs cannot be served from the cache.
C22_ScopeEndDestroysConnectionAndCache ==
    ScopeEnded
        => /\ inst.client = 0
           /\ call.held \notin connOpen
           /\ inst.cache = EmptyCache
           /\ \A market \in MarketInputs : ~CacheFresh(inst, market, now)

\* the last call was fetch_all_pairs with a market type the adapter supports
PairsCalled ==
    /\ mcall.method = "fetch_all_pairs"
    /\ SupportedMarket(mcall.cls, mcall.req.market)

\* the call returned without invoking the fetcher
ServedFromCache == mcall.exc = NoExc /\ mcall.fetches = 0

\* the age, at the call, of the entry the instance held for the market
EntryAge == mcall.t0 - mcall.cacheBefore[mcall.req.market].ts

\* C23: fetch_all_pairs(use_cache=true) serves an entry if and only if
\* now - capture_timestamp < ttl; an entry whose age equals or exceeds the
\* TTL is treated as absent and causes a live fetch, with ttl = 0 no call is
\* served from the cache, and the default TTL of an instance is 60.
C23_ServedIffYoungerThanTtl ==
    /\ PairsCalled
         => LET present == mcall.req.market \in DOMAIN mcall.cacheBefore IN
            /\ ServedFromCache <=> (mcall.use_cache /\ present /\ EntryAge < inst.ttl)
            /\ ServedFromCache => mcall.ret = mcall.cacheBefore[mcall.req.market].data
            /\ ~ServedFromCache => mcall.fetches = 1
            /\ inst.ttl = 0 => ~ServedFromCache
    /\ (inst # NoInst /\ created.name # <<>>) => inst.ttl = 60

C23_Witness ==
    /\ PairsCalled
    /\ mcall.use_cache
    /\ mcall.req.market \in DOMAIN mcall.cacheBefore
    /\ EntryAge = 60
    /\ inst.ttl = 60
    /\ mcall.exc = NoExc
    /\ mcall.fetches = 1

\* the step is a fetch_all_pairs(m, use_cache=true) that fetched and
\* returned
LiveFetchStored ==
    /\ mcall.method = ""
    /\ mcall'.method = "fetch_all_pairs"
    /\ mcall'.use_cache
    /\ mcall'.exc = NoExc
    /\ mcall'.fetches = 1

\* C24: the cache of an instance changes only by a live
\* fetch_all_pairs(m, use_cache=true) that succeeds, which overwrites the
\* entry of m with the result and the current time and leaves the other
\* entries alone; a hit, a call with use_cache=false, a failed fetch, the
\* passing of time and every other operation leave the cache unchanged.
C24_CacheWrittenOnlyByLiveFetch ==
    [][ inst # NoInst
          => inst'.cache =
               IF LiveFetchStored
               THEN (mcall'.req.market :> CacheEntry(now', mcall'.ret)) @@ inst.cache
               ELSE inst.cache ]_vars

C24_Witness ==
    /\ PairsCalled
    /\ mcall.use_cache
    /\ mcall.exc = NoExc
    /\ mcall.fetches = 1
    /\ mcall.waits # <<>>
    /\ mcall.req.market = "futures"
    /\ DOMAIN mcall.cacheBefore = {"futures"}
    /\ DOMAIN inst.cache = {"futures"}
    /\ inst.cache["futures"] = CacheEntry(now, mcall.ret)
    /\ inst.cache["futures"] # mcall.cacheBefore["futures"]

\* the step is an operation on the instance that made a network attempt
AttemptMade == mcall.method = "" /\ mcall'.method # "" /\ mcall'.attempts > 0

\* the operation the instance has performed ended in an input-validation
\* error or in a not-implemented signal, and it is the only one so far
OnlyRejections ==
    /\ inst # NoInst
    /\ nCalls = 1
    /\ mcall.method # ""
    /\ mcall.exc.type \in {"ValueError", "NotImplementedError"}

\* C25: creating an instance opens no connection, the connection is
\* created only when a network attempt is made, and an instance whose
\* operations so far ended in input-validation errors, not-implemented
\* signals or metadata queries of the registry holds no connection.
C25_ConnectionOnlyAfterNetworkUse ==
    /\ [](OnlyRejections => inst.client = 0 /\ connCount = 0)
    /\ [][ /\ (inst = NoInst /\ inst' # NoInst)
                => inst'.client = 0 /\ connOpen' = connOpen /\ connCount' = connCount
           /\ (connCount' # connCount \/ (inst.client = 0 /\ inst'.client # 0))
                => AttemptMade
           /\ (info' # info) => UNCHANGED <<inst, connOpen, connCount>> ]_vars

\* both callers have completed a fetch_all_pairs of the same market, each
\* with a cache write
BothStored ==
    /\ \A c \in Callers : callers[c].pc = "done" /\ callers[c].wrote > 0
    /\ callers["A"].market = callers["B"].market

\* the caller whose cache write came last
LastWriter == CHOOSE c \in Callers : \A d \in Callers : callers[d].wrote <= callers[c].wrote

\* C26: the read-check-write of fetch_all_pairs is not atomic: two callers
\* interleaving on one instance can both miss and both fetch; after both
\* complete the cache holds one entry for the market, the complete result
\* of whichever caller wrote last.
C26_LastWriterWins ==
    /\ \A c \in Callers :
         (callers[c].pc = "done" /\ callers[c].exc = NoExc)
            => /\ callers[c].hit <=> callers[c].fetches = 0
               /\ ~callers[c].hit => callers[c].ret = callers[c].result
    /\ BothStored
         => /\ callers["A"].market \in DOMAIN inst.cache
            /\ inst.cache[callers["A"].market] =
                 CacheEntry(callers[LastWriter].ts, callers[LastWriter].result)
            /\ callers[LastWriter].wrote = nWrites

C26_Witness ==
    /\ BothStored
    /\ nCalls = 2
    /\ \A c \in Callers :
         /\ callers[c].market = "spot"
         /\ ~callers[c].hit
         /\ callers[c].fetches = 1
    /\ callers["A"].wrote < callers["B"].wrote
    /\ callers["A"].result # callers["B"].result
    /\ callers["B"].ts - callers["A"].t0 < inst.ttl
    /\ inst.cache["spot"] = CacheEntry(callers["B"].ts, callers["B"].result)

\* the step is a close() of the instance
CloseStep == inst # NoInst /\ call'.op = "close" /\ mcall' = mcall

\* the step is an operation called on the instance
OperationStep == inst # NoInst /\ mcall.method = "" /\ mcall'.method # ""

\* C27: with one caller an instance has at most one open connection, a
\* close() that returns leaves every connection it opened closed, close()
\* without an open connection changes nothing, and a network operation
\* after close() opens a new connection that stays open until the next
\* close().
C27_OneConnectionUntilClose ==
    /\ [](Cardinality(connOpen) <= 1 /\ (inst.client = 0 => connOpen = {}))
    /\ [][ /\ CloseStep
               => /\ call'.closeExc = NoExc => (inst'.client = 0 /\ connOpen' = {})
                  /\ inst.client = 0
                       => (inst' = inst /\ connOpen' = connOpen /\ call'.closeExc = NoExc)
           /\ OperationStep
               => /\ (inst.client = 0 /\ mcall'.attempts > 0)
                       => /\ inst'.client \notin connOpen \cup {0}
                          /\ connOpen' = {inst'.client}
                          /\ connCount' = connCount + 1
                  /\ inst.client # 0
                       => (inst'.client = inst.client /\ connOpen' = connOpen)
           /\ ~CloseStep => connOpen \subseteq connOpen' ]_vars

C27_Witness ==
    /\ call.op = "close"
    /\ call.closeExc = NoExc
    /\ call.held = 2
    /\ connCount = 2
    /\ nCalls = 2
    /\ inst.client = 0
    /\ connOpen = {}

\* the last call was a Bybit fetch_funding_rate_history that passed its
\* validation and sent its request
FundingRequestSent ==
    /\ MethodCalled("BybitExchange", "fetch_funding_rate_history")
    /\ mcall.attempts > 0

\* C28: every request Bybit fetch_funding_rate_history sends carries both
\* startTime and endTime or no startTime, whatever start_time and end_time
\* (absent, 0 or positive) passed the validation.
C28_StartTimeSentWithEndTime ==
    FundingRequestSent
        => ("startTime" \in Bybit_funding_rate_history_params(mcall.req)
              => "endTime" \in Bybit_funding_rate_history_params(mcall.req))

\* the last tool run was an export of funding rates or of open interest
\* under a name the registry resolves
ExportedUnderResolvedName ==
    /\ Replied
    /\ reply.tool \in {"export_funding_rate", "export_open_interest"}
    /\ create(registry, reply.exchange).exc = NoExc

\* what the body of the `with` block does under the lower-case spelling of
\* the name, exposed to the same attempt outcomes and vendor response
UnderLowerCase ==
    WithBody(reply.tool, reply.cls, Lower(reply.exchange), reply.req,
             [NoIn EXCEPT !.outs = reply.outs, !.body = reply.body], now)

\* C29: for every exchange name the registry resolves, whatever its letter
\* case, export_funding_rate and export_open_interest fetch from that
\* adapter and give the outcome they give for the lower-case spelling.
C29_ExportsIgnoreLetterCase ==
    ExportedUnderResolvedName
        => /\ reply.called = UnderLowerCase.called
           /\ reply.fetches = UnderLowerCase.res.fetches
           /\ reply.attempts = UnderLowerCase.res.attempts
           /\ reply.closeExc = NoExc /\ UnderLowerCase.res.exc # NoExc
                => reply.exc = UnderLowerCase.res.exc
           /\ UnderLowerCase.res.exc = NoExc
                => reply.exc.text \notin {"Funding rate not supported",
                                          "Open interest not supported"}

\* the last run was a public exchange operation called with a name that is
\* not registered
UnregisteredName ==
    /\ Replied
    /\ reply.tool \in ToolNames \ IndicatorTools
    /\ create(registry, reply.exchange).exc # NoExc

\* C30: every public exchange operation called with an exchange name that
\* is not registered returns an error payload of the category "Invalid
\* input", not "Unexpected error", whose message lists the registered
\* names, and makes no network call.
C30_UnknownExchangeIsInvalidInput ==
    UnregisteredName
        => /\ reply.payload.error = "Invalid input"
           /\ reply.payload.error_type = "ValueError"
           /\ reply.payload.message = "Exchange not found. Available exchanges"
           /\ reply.exc.detail = list_exchanges(registry)
           /\ reply.attempts = 0
           /\ reply.fetches = 0
====
